---- MODULE Spec2Model ----
(***************************************************************************)
(* Orisha: the deterministic analysis pipeline (src/orisha/pipeline.py),   *)
(* the preflight gate (src/orisha/utils/preflight.py) and the `write`      *)
(* command that drives both (src/orisha/cli.py).                           *)
(*                                                                         *)
(* One run of AnalysisPipeline.run is a walk of `pc` through the stages in *)
(* the order of the source.  Every call into an analyzer, an adapter or    *)
(* the generative client is an input: its outcome ("ok", or one of the     *)
(* exceptions the callee can raise) is chosen with \E, and each invocation *)
(* is appended to `trace`.                                                 *)
(***************************************************************************)
EXTENDS Naturals, Integers, Sequences, FiniteSets, TLC

VARIABLES
    pc,         \* position in cli.write / AnalysisPipeline.run
    cli,        \* the write command's flags (invoked = FALSE for a library caller)
    config,     \* the OrishaConfig handed to the pipeline (present = FALSE: None)
    options,    \* PipelineOptions of the run
    preflight,  \* PreflightResult of the write command (ran = FALSE before it)
    registry,   \* the process-wide ToolRegistry (created = FALSE: _registry is None)
    pipelines,  \* number of AnalysisPipeline objects constructed
    result,     \* the AnalysisResult accumulator, status "none" before it exists
    exc,        \* the exception travelling to run()'s handler, "none" if none
    trace,      \* every stage entry and every external invocation, in order
    directory,    \* the scanned repository: the manifest entries on disk
    _direct_deps, \* DirectDependencyResolver._direct_deps (ecosystem -> names)
    sbom,         \* the CanonicalSBOM of SyftAdapter.execute (ran = FALSE before it)
    ast,          \* the parsed modules and the module directories of the repository
    built_graph,  \* the ImportGraph of the current run (built = FALSE before it)
    module_flow_diagram, \* the ModuleFlowDiagram of the current run
    runs,         \* the graph and the diagram of every finished run
    tool_registry, \* a ToolRegistry with the adapter classes it holds
    last_call,     \* the last call of that registry: what it did and returned
    populated,     \* setup_default_adapters has run on that registry
    merge_input,   \* the parsed dependencies and the SBOM packages of a merge
    technology_stack \* result.technology_stack.dependencies (merged = FALSE before the merge)

pipelineVars == <<pc, cli, config, options, preflight, registry, pipelines, result, exc, trace>>

sbomVars == <<directory, _direct_deps, sbom>>

\* the state of the components that are exercised on their own
flowVars == <<ast, built_graph, module_flow_diagram, runs>>

registryVars == <<tool_registry, last_call, populated>>

mergeVars == <<merge_input, technology_stack>>

unitVars == <<sbomVars, flowVars, registryVars, mergeVars>>

vars == <<pipelineVars, unitVars>>

(***************************************************************************)
(* Bounds                                                                  *)
(***************************************************************************)
\* at most this many invocations fail within one run
MaxFailures == 2

(***************************************************************************)
(* Data model                                                              *)
(***************************************************************************)
\* models/analysis.py AnalysisStatus; "none" stands for "no result object yet"
AnalysisStatus == {"pending", "running", "completed", "failed"}

\* the narration sections of _run_structured_prompting / _apply_placeholder_summaries
sections == <<"overview", "tech_stack", "architecture", "dependencies">>

SectionNames == {sections[i] : i \in DOMAIN sections}

\* models/analysis.py AnalysisError (message and file_path carry no control flow)
AnalysisError(component, recoverable) ==
    [component |-> component, recoverable |-> recoverable]

\* PipelineOptions(): every flag defaults to False
PipelineOptions ==
    [skip_sbom |-> FALSE, skip_architecture |-> FALSE, skip_ast |-> FALSE,
     skip_dependencies |-> FALSE, skip_llm |-> FALSE, skip_flow_docs |-> FALSE,
     skip_repomix |-> FALSE, fail_fast |-> FALSE]

AllOptions ==
    [skip_sbom : BOOLEAN, skip_architecture : BOOLEAN, skip_ast : BOOLEAN,
     skip_dependencies : BOOLEAN, skip_llm : BOOLEAN, skip_flow_docs : BOOLEAN,
     skip_repomix : BOOLEAN, fail_fast : BOOLEAN]

\* The configurations a run can be given.  llm_valid says whether
\* LLMConfigModel(...) accepts the llm fields (its __post_init__ is a pure
\* function of them); sbom/diagrams are the configured tool names.
Configs ==
    [present : {FALSE}, llm_enabled : {TRUE}, llm_valid : {FALSE},
     sbom : {"syft"}, diagrams : {"terravision"}] \cup
    [present : {TRUE}, llm_enabled : {FALSE}, llm_valid : {TRUE},
     sbom : {"syft"}, diagrams : {"terravision"}] \cup
    [present : {TRUE}, llm_enabled : {TRUE}, llm_valid : BOOLEAN,
     sbom : {"syft"}, diagrams : {"terravision"}] \cup
    [present : {TRUE}, llm_enabled : {TRUE}, llm_valid : {TRUE},
     sbom : {"trivy"}, diagrams : {"graphviz"}]

\* AnalysisResult(...) as run() constructs it: every optional field at its
\* dataclass default, status as given
AnalysisResult(status) ==
    [status |-> status,
     errors |-> <<>>,
     technology_stack |-> [parsed |-> FALSE, ast_languages |-> FALSE, sbom_merged |-> FALSE],
     tool_versions |-> {},
     sbom |-> FALSE,
     architecture |-> FALSE,
     source_analysis |-> FALSE,
     llm_summaries |-> [s \in {} |-> "placeholder"],
     modules |-> FALSE,
     entry_points |-> FALSE,
     external_integrations |-> FALSE,
     module_flow_diagram |-> FALSE,
     compressed_codebase |-> FALSE,
     holistic_overview |-> "none"]

NoResult == AnalysisResult("none")

\* NewResult without the status argument: the dataclass default PENDING
NewResult_DefaultStatus == AnalysisResult("pending")

\* the result run() creates: AnalysisResult(..., status=AnalysisStatus.RUNNING)
NewResult == AnalysisResult("running")

\* AnalysisResult.add_error
add_error(res, error) == [res EXCEPT !.errors = Append(@, error)]

\* AnalysisResult.has_errors
has_errors(res) == Len(res.errors) > 0

(***************************************************************************)
(* The invocation log                                                      *)
(***************************************************************************)
Event(stage, call, out) == [stage |-> stage, call |-> call, out |-> out]

\* a stage method of the pipeline was entered
Begin(stage) == Event(stage, "begin", "-")

\* outcomes with which an invocation fails: an exception of the callee
\* ("raise": any Exception; "not_available": ToolNotAvailableError;
\* "execution_failed": ToolExecutionError; "not_registered":
\* ToolNotAvailableError of the registry; "invalid": ValueError of
\* LLMConfigModel), a False probe ("unavailable"), an LLMError the callee
\* swallowed ("llm_error") or an empty summary ("empty")
FailureOutcomes ==
    {"raise", "not_available", "execution_failed", "not_registered", "invalid",
     "unavailable", "llm_error", "empty"}

\* the failures that are inputs of a run (the others follow from config)
InputFailures == FailureOutcomes \ {"not_registered", "invalid"}

Failures(tr) == Cardinality({i \in DOMAIN tr : tr[i].out \in InputFailures})

\* how many more invocations may fail
Budget(tr) == IF Failures(tr) < MaxFailures THEN MaxFailures - Failures(tr) ELSE 0

\* the outcomes an invocation may have, given what has failed so far
Outcomes(tr, all) == IF Budget(tr) > 0 THEN all ELSE all \ InputFailures

(***************************************************************************)
(* Tool registry (analyzers/registry.py, analyzers/__init__.py)            *)
(***************************************************************************)
\* the module global _registry = None
NoRegistry ==
    [created |-> FALSE, sbom_adapters |-> {}, diagram_adapters |-> {},
     default_sbom |-> "none", default_diagram |-> "none"]

\* ToolRegistry.__init__
ToolRegistry == [NoRegistry EXCEPT !.created = TRUE]

\* get_registry: create the global instance on first use
get_registry(reg) == IF ~reg.created THEN ToolRegistry ELSE reg

register_sbom_adapter(reg, name, is_default) ==
    [reg EXCEPT !.sbom_adapters = @ \cup {name},
                !.default_sbom = IF is_default THEN name ELSE @]

register_diagram_adapter(reg, name, is_default) ==
    [reg EXCEPT !.diagram_adapters = @ \cup {name},
                !.default_diagram = IF is_default THEN name ELSE @]

setup_default_adapters(reg) ==
    register_diagram_adapter(
        register_sbom_adapter(get_registry(reg), "syft", TRUE),
        "terravision", TRUE)

\* get_sbom_adapter / get_diagram_adapter: TRUE iff an instance is returned,
\* FALSE iff ToolNotAvailableError is raised
get_sbom_adapter(reg, name) ==
    LET tool_name == IF name = "none" THEN reg.default_sbom ELSE name
    IN  tool_name # "none" /\ tool_name \in reg.sbom_adapters

get_diagram_adapter(reg, name) ==
    LET tool_name == IF name = "none" THEN reg.default_diagram ELSE name
    IN  tool_name # "none" /\ tool_name \in reg.diagram_adapters

(***************************************************************************)
(* Preflight gate (utils/preflight.py)                                     *)
(***************************************************************************)
\* the write command has not been invoked
NoCli == [invoked |-> FALSE, skip_sbom |-> FALSE, skip_architecture |-> FALSE,
          skip_llm |-> FALSE, exit_code |-> -1]

\* ToolCheck (version, path and message carry no control flow)
ToolCheck(name, available, required) ==
    [name |-> name, available |-> available, required |-> required]

\* PreflightResult(): success=True, no checks, no errors, no warnings
PreflightResult == [ran |-> TRUE, success |-> TRUE, checks |-> {}, errors |-> {},
                    warnings |-> {}]

NoPreflight == [PreflightResult EXCEPT !.ran = FALSE]

\* add_check that lets the latest check decide success
add_check_Overwrite(pre, check) ==
    LET added == [pre EXCEPT !.checks = @ \cup {check},
                             !.success = check.available \/ ~check.required]
    IN  IF ~check.available
        THEN IF check.required
             THEN [added EXCEPT !.errors = @ \cup {check.name}]
             ELSE [added EXCEPT !.warnings = @ \cup {check.name}]
        ELSE added

\* PreflightResult.add_check
add_check(pre, check) ==
    LET added == [pre EXCEPT !.checks = @ \cup {check}]
    IN  IF ~check.available
        THEN IF check.required
             THEN [added EXCEPT !.success = FALSE, !.errors = @ \cup {check.name}]
             ELSE [added EXCEPT !.warnings = @ \cup {check.name}]
        ELSE added

RECURSIVE add_checks(_, _)
add_checks(pre, checks) ==
    IF checks = <<>> THEN pre
    ELSE add_checks(add_check(pre, Head(checks)), Tail(checks))

\* the probes of PreflightChecker.check_all
CheckNames ==
    {"git", "tree-sitter", "syft", "repomix", "terravision", "graphviz", "litellm",
     "llm_provider"}

\* PreflightChecker.check_all as the write command calls it (skip_ast and
\* skip_repomix keep their default False); avail[n] is what probe n finds.
check_all(avail, sbom_tool, diagram_tool, skip_sbom, skip_architecture, skip_llm) ==
    LET Check(n) == ToolCheck(n, avail[n], TRUE)
        wanted ==
            <<Check("git"), Check("tree-sitter")>>
            \o (IF ~skip_sbom /\ sbom_tool = "syft" THEN <<Check("syft")>> ELSE <<>>)
            \o <<Check("repomix")>>
            \o (IF ~skip_architecture /\ diagram_tool = "terravision"
                THEN <<Check("terravision"), Check("graphviz")>> ELSE <<>>)
            \o (IF ~skip_llm THEN <<Check("litellm"), Check("llm_provider")>> ELSE <<>>)
    IN  add_checks(PreflightResult, wanted)

(***************************************************************************)
(* Control flow of AnalysisPipeline.run                                    *)
(***************************************************************************)
\* StageOrder with the narration stage called before the SBOM scan
StageOrder_NarrationBeforeSbom ==
    <<"dependency", "repomix", "ast", "flow", "llm", "sbom", "architecture", "holistic">>

\* StageOrder with the SBOM scan called before the structure parse (the
\* order of an earlier stage numbering)
StageOrder_SbomBeforeAst ==
    <<"dependency", "repomix", "sbom", "ast", "flow", "architecture", "llm", "holistic">>

\* the stages in the order of the statements of run()'s try block
StageOrder ==
    <<"dependency", "repomix", "ast", "flow", "sbom", "architecture", "llm", "holistic">>

StageIndex(stage) == CHOOSE i \in DOMAIN StageOrder : StageOrder[i] = stage

\* the statement that follows a stage in run(); "Mark complete" follows the last
NextStage(stage) ==
    IF StageIndex(stage) < Len(StageOrder) THEN StageOrder[StageIndex(stage) + 1]
    ELSE "mark"

\* ShouldRun in which flow-documentation looks at its own skip flag only
ShouldRun_FlowIgnoresAst(stage, opts, res) ==
    CASE stage = "dependency" -> ~opts.skip_dependencies
      [] stage = "repomix" -> ~opts.skip_repomix
      [] stage = "ast" -> ~opts.skip_ast
      [] stage = "flow" -> ~opts.skip_flow_docs
      [] stage = "sbom" -> ~opts.skip_sbom
      [] stage = "architecture" -> ~opts.skip_architecture
      [] stage = "llm" -> ~opts.skip_llm
      [] stage = "holistic" ->
            ~opts.skip_repomix /\ ~opts.skip_llm /\ res.compressed_codebase

\* ShouldRun in which holistic narration does not look at skip_llm
ShouldRun_HolisticIgnoresSkipLlm(stage, opts, res) ==
    CASE stage = "dependency" -> ~opts.skip_dependencies
      [] stage = "repomix" -> ~opts.skip_repomix
      [] stage = "ast" -> ~opts.skip_ast
      [] stage = "flow" -> ~opts.skip_flow_docs /\ ~opts.skip_ast
      [] stage = "sbom" -> ~opts.skip_sbom
      [] stage = "architecture" -> ~opts.skip_architecture
      [] stage = "llm" -> ~opts.skip_llm
      [] stage = "holistic" -> ~opts.skip_repomix /\ res.compressed_codebase

\* the condition under which run() calls the stage method
ShouldRun(stage, opts, res) ==
    CASE stage = "dependency" -> ~opts.skip_dependencies
      [] stage = "repomix" -> ~opts.skip_repomix
      [] stage = "ast" -> ~opts.skip_ast
      [] stage = "flow" -> ~opts.skip_flow_docs /\ ~opts.skip_ast
      [] stage = "sbom" -> ~opts.skip_sbom
      [] stage = "architecture" -> ~opts.skip_architecture
      [] stage = "llm" -> ~opts.skip_llm
      [] stage = "holistic" ->
            ~opts.skip_repomix /\ ~opts.skip_llm /\ res.compressed_codebase

\* Reraises without the `if options.fail_fast` guard: every recorded
\* exception is re-raised
Reraises_NoGuard(stage, out, opts) == out # "ok"

\* whether the except clause of a deterministic stage re-raises after it has
\* recorded the error: `if options.fail_fast: raise`, which the repomix
\* handler and the ToolNotAvailableError handlers do not have
Reraises(stage, out, opts) ==
    CASE stage = "repomix" -> FALSE
      [] stage \in {"sbom", "architecture"} ->
            opts.fail_fast /\ out \in {"execution_failed", "raise"}
      [] OTHER -> opts.fail_fast /\ out = "raise"

\* where a stage hands control: on to the next statement of run(), or to
\* the except clause of run() when it raised
Continue(stage, raised) == IF raised THEN "except" ELSE NextStage(stage)

\* LlmRequiredError with the dataclass default recoverable=True
LlmRequiredError_Recoverable == AnalysisError("llm", TRUE)

\* the AnalysisError _run_llm_summarization records when the client cannot be
\* created or is not available ("LLM is required")
LlmRequiredError == AnalysisError("llm", FALSE)

(***************************************************************************)
(* Direct-dependency resolution (analyzers/dependency.py) and the Syft     *)
(* adapter's canonical transformation (analyzers/sbom/syft.py).            *)
(*                                                                         *)
(* A package name is the sequence of its characters, so that lower(),      *)
(* replace() and the regular expressions of the manifest parsers are       *)
(* computed character by character.                                        *)
(***************************************************************************)
\* at most this many entries are declared across the manifests of a directory
MaxDeclared == 2

\* str.lower() on one character
LowerChar(c) == CASE c = "A" -> "a" [] c = "B" -> "b" [] c = "G" -> "g" [] OTHER -> c

\* str.lower()
lower(s) == [i \in DOMAIN s |-> LowerChar(s[i])]

\* str.replace(old, new) for single characters: every occurrence is replaced
replace(s, old, new) == [i \in DOMAIN s |-> IF s[i] = old THEN new ELSE s[i]]

\* the longest prefix of s whose characters are all in class
RECURSIVE MatchPrefix(_, _)
MatchPrefix(s, class) ==
    IF s = <<>> \/ Head(s) \notin class THEN <<>>
    ELSE <<Head(s)>> \o MatchPrefix(Tail(s), class)

\* str.split(sep) for a single-character separator
RECURSIVE Split(_, _)
Split(s, sep) ==
    IF \A i \in DOMAIN s : s[i] # sep THEN <<s>>
    ELSE LET k == CHOOSE i \in DOMAIN s :
                      s[i] = sep /\ \A j \in 1..(i - 1) : s[j] # sep
         IN  <<SubSeq(s, 1, k - 1)>> \o Split(SubSeq(s, k + 1, Len(s)), sep)

\* the character class [a-zA-Z0-9_.-] of the requirement-name expressions
NameClass == {"a", "b", "g", "s", "A", "B", "G", "1", "_", ".", "-"}

\* the characters that are not whitespace (\S, and the fields of str.split())
NonSpace == NameClass \cup {"@", "/", ":", "=", ">", "(", ")", "[", "]"}

\* every character of a manifest; "LF" is the line feed
Chars == NonSpace \cup {" ", "LF"}

\* the package names of the repositories and of the scanner's output
PlainNames ==
    {<<"a", "-", "b">>, <<"A", "_", "b">>, <<"a", ".", "b">>, <<"a", "b">>}

\* the order in which a pyproject.toml lists its dependencies
ListedOrder ==
    <<(<<"a", "b">>), (<<"a", "-", "b">>), (<<"a", ".", "b">>), (<<"A", "_", "b">>)>>

ScopedNames == {<<"@", "s", "/", "a">>, <<"@", "s", "/", "b">>}

CoordinateNames == {<<"g", ":", "a", "b">>, <<"g", ":", "a", "-", "b">>}

\* the manifest files of a directory; the parent of the nested package.json
\* files differs from the directory
ManifestFiles ==
    {"package.json", "web/package.json", "node_modules/x/package.json",
     "requirements.txt", "pyproject.toml", "go.mod", "pom.xml", "build.gradle"}

IsPackageJson(file) ==
    file \in {"package.json", "web/package.json", "node_modules/x/package.json"}

\* '"node_modules" in str(pkg_json)'
InNodeModules(file) == file = "node_modules/x/package.json"

\* the names that the format of a manifest file can declare
DeclarableNames(file) ==
    IF IsPackageJson(file) THEN ScopedNames \cup {<<"a", "b">>}
    ELSE IF file \in {"pom.xml", "build.gradle"} THEN CoordinateNames
    ELSE PlainNames

\* one declared dependency of one manifest file; a Python requirement may
\* name extras, as in "name[s]>=1"
ManifestEntries ==
    {[file |-> f, name |-> n, extras |-> x] :
        f \in ManifestFiles, n \in PlainNames \cup ScopedNames \cup CoordinateNames,
        x \in BOOLEAN}

Entries ==
    {en \in ManifestEntries :
        /\ en.name \in DeclarableNames(en.file)
        /\ en.extras => en.file \in {"requirements.txt", "pyproject.toml"}}

\* the subsets of S with at most k elements
RECURSIVE SubsetsUpTo(_, _)
SubsetsUpTo(S, k) ==
    IF k = 0 THEN {{}}
    ELSE LET smaller == SubsetsUpTo(S, k - 1)
         IN  smaller \cup {d \cup {e} : d \in smaller, e \in S}

\* a directory is the set of the entries its manifests declare
Directories == SubsetsUpTo(Entries, MaxDeclared)

\* the extras of a Python requirement
Extras(en) == IF en.extras THEN <<"[", "s", "]">> ELSE <<>>

\* the text by which a manifest declares an entry: a key of the dependencies
\* object, a requirement line "name[s]==1", a requirement string "name[s]>=1",
\* a require line "path 1", a <dependency> element (groupId, artifactId), a
\* dependency string "group:artifact:1"
Line(en) ==
    CASE IsPackageJson(en.file)        -> en.name
      [] en.file = "requirements.txt"  -> en.name \o Extras(en) \o <<"=", "=", "1">>
      [] en.file = "pyproject.toml"    -> en.name \o Extras(en) \o <<">", "=", "1">>
      [] en.file = "go.mod"            -> en.name \o <<" ", "1">>
      [] en.file = "pom.xml"           -> en.name
      [] en.file = "build.gradle"      -> en.name \o <<":", "1">>

\* the groupId and artifactId elements of a <dependency>
GroupId(en) == Split(en.name, ":")[1]

ArtifactId(en) == Split(en.name, ":")[2]

\* DirectDependencyResolver._parse_package_json_file: the keys of
\* "dependencies" and "devDependencies"
_parse_package_json_file(dir, file) ==
    {Line(en) : en \in {x \in dir : x.file = file}}

\* _parse_requirements_txt: for each line of the file,
\* re.match(r"^([a-zA-Z0-9_.-]+)", line), then match.group(1).lower()
_parse_requirements_txt(dir) ==
    {lower(MatchPrefix(Line(en), NameClass)) :
        en \in {x \in dir : x.file = "requirements.txt"
                                /\ MatchPrefix(Line(x), NameClass) # <<>>}}

\* the requirement strings of the dependencies array of pyproject.toml, one
\* per line, in the order of the file
RECURSIVE ArrayBody(_, _)
ArrayBody(dir, i) ==
    IF i > Len(ListedOrder) THEN <<>>
    ELSE LET listed(x) == IF [file |-> "pyproject.toml", name |-> ListedOrder[i],
                                extras |-> x] \in dir
                          THEN Line([file |-> "pyproject.toml", name |-> ListedOrder[i],
                                     extras |-> x]) \o <<"LF">>
                          ELSE <<>>
         IN  listed(TRUE) \o listed(FALSE) \o ArrayBody(dir, i + 1)

\* _parse_pyproject_toml: the group (.*?) of
\* r'\[project\].*?dependencies\s*=\s*\[(.*?)\]' ends before the first "]" of
\* the array's text; its lines are matched like the lines of requirements.txt
_parse_pyproject_toml(dir) ==
    LET deps_content == MatchPrefix(ArrayBody(dir, 1) \o <<"]">>, Chars \ {"]"})
        lines == Split(deps_content, "LF")
    IN  {lower(MatchPrefix(lines[k], NameClass)) :
            k \in {j \in DOMAIN lines : MatchPrefix(lines[j], NameClass) # <<>>}}

\* _parse_go_mod: parts = line.split(); parts[0];
\* the entries stand in a "require (" block, whose opening line also matches
\* the single-line expression r"^require\s+(\S+)" with the group "("
_parse_go_mod(dir) ==
    {MatchPrefix(Line(en), NonSpace) :
        en \in {x \in dir : x.file = "go.mod" /\ MatchPrefix(Line(x), NonSpace) # <<>>}}
    \cup (IF \E x \in dir : x.file = "go.mod" THEN {<<"(">>} ELSE {})

\* _parse_pom_xml: f"{group_id}:{artifact_id}"
_parse_pom_xml(dir) ==
    {GroupId(en) \o <<":">> \o ArtifactId(en) : en \in {x \in dir : x.file = "pom.xml"}}

\* _parse_build_gradle: parts = dep_string.split(":"); f"{parts[0]}:{parts[1]}"
_parse_build_gradle(dir) ==
    {Split(Line(en), ":")[1] \o <<":">> \o Split(Line(en), ":")[2] :
        en \in {x \in dir : x.file = "build.gradle" /\ Len(Split(Line(x), ":")) >= 2}}

\* DirectDependencyResolver.__init__: no ecosystem is known yet
NoDirectDeps == [e \in {} |-> {}]

\* DirectDependencyResolver.resolve_from_directory
resolve_from_directory(dir) ==
    [e \in {"npm", "pypi", "go", "maven"} |->
        CASE e = "npm" ->
                 UNION {_parse_package_json_file(dir, f) :
                           f \in {g \in ManifestFiles :
                                     IsPackageJson(g) /\ ~InNodeModules(g)}}
          [] e = "pypi" ->
                 _parse_requirements_txt(dir) \cup _parse_pyproject_toml(dir)
          [] e = "go" -> _parse_go_mod(dir)
          [] e = "maven" -> _parse_pom_xml(dir) \cup _parse_build_gradle(dir)]

\* DirectDependencyResolver._normalize_pypi_name
_normalize_pypi_name(name) == replace(replace(lower(name), "-", "_"), ".", "_")

\* the scope of a scoped package name, up to and including "/"
Scope(name) ==
    IF name # <<>> /\ Head(name) = "@" /\ Len(Split(name, "/")) >= 2
    THEN Split(name, "/")[1] ELSE <<>>

\* _match_npm_package matching a scoped name by its scope
_match_npm_package_ByScope(name, direct_names) ==
    \/ name \in direct_names
    \/ /\ name # <<>> /\ Head(name) = "@"
       /\ \E d \in direct_names : d # <<>> /\ Head(d) = "@" /\ Scope(d) = Scope(name)

\* DirectDependencyResolver._match_npm_package
_match_npm_package(name, direct_names) ==
    IF name \in direct_names THEN TRUE
    ELSE IF name # <<>> /\ Head(name) = "@" THEN name \in direct_names
    ELSE FALSE

\* DirectDependencyResolver.is_direct
is_direct(deps, name, ecosystem) ==
    IF ecosystem \notin DOMAIN deps THEN FALSE
    ELSE LET direct_names == deps[ecosystem]
         IN  IF name \in direct_names THEN TRUE
             ELSE IF ecosystem = "npm" THEN _match_npm_package(name, direct_names)
             ELSE IF ecosystem = "pypi"
                  THEN \E direct_name \in direct_names :
                           _normalize_pypi_name(direct_name) = _normalize_pypi_name(name)
             ELSE FALSE

\* the package types of the scanner's output
SyftTypes == {"npm", "NPM", "python", "go-module", "java-archive", "gem", ""}

\* pkg_type.lower()
LowerType(t) == IF t = "NPM" THEN "npm" ELSE t

\* SYFT_TYPE_TO_ECOSYSTEM.get(pkg_type, pkg_type), "unknown" for an empty type
Ecosystem(pkg_type) ==
    CASE pkg_type = "npm"          -> "npm"
      [] pkg_type = "python"       -> "pypi"
      [] pkg_type = "go-module"    -> "go"
      [] pkg_type = "java-archive" -> "maven"
      [] pkg_type = "gem"          -> "rubygems"
      [] pkg_type = ""             -> "unknown"
      [] OTHER                     -> pkg_type

\* the artifacts of the scanner's output; one of them has no name
Artifacts ==
    {[name |-> n, type |-> t] :
        n \in PlainNames \cup ScopedNames \cup CoordinateNames, t \in SyftTypes}
    \cup {[name |-> <<>>, type |-> "npm"]}

\* models/canonical/sbom.py CanonicalPackage
CanonicalPackage(name, ecosystem, direct) ==
    [name |-> name, ecosystem |-> ecosystem, is_direct |-> direct]

\* SyftAdapter._transform_artifact: the packages of one artifact (none for an
\* artifact without a name)
_transform_artifact(deps, artifact) ==
    IF artifact.name = <<>> THEN <<>>
    ELSE LET ecosystem == Ecosystem(LowerType(artifact.type))
         IN  <<CanonicalPackage(artifact.name, ecosystem,
                                is_direct(deps, artifact.name, ecosystem))>>

\* SyftAdapter._transform_to_canonical
RECURSIVE _transform_to_canonical(_, _)
_transform_to_canonical(deps, artifacts) ==
    IF artifacts = <<>> THEN <<>>
    ELSE _transform_artifact(deps, Head(artifacts))
             \o _transform_to_canonical(deps, Tail(artifacts))

\* no scan has been made
NoSbom == [ran |-> FALSE, outcome |-> "none", packages |-> <<>>]

\* the resolver and the adapter before SyftAdapter.execute
SbomIdle ==
    /\ directory = {}
    /\ _direct_deps = NoDirectDeps
    /\ sbom = NoSbom

(***************************************************************************)
(* Import graph (analyzers/import_graph.py)                                *)
(*                                                                         *)
(* A path or a module name is the sequence of its "/"-separated segments:  *)
(* "app/utils" is <<"app", "utils">>.                                      *)
(***************************************************************************)
\* every segment of the names, in the order of Python's string comparison
SegmentOrder ==
    <<"__init__", "api", "app", "app_utils", "cli", "index",
      "m01", "m02", "m03", "m04", "m05", "m06", "m07", "m08", "m09", "m10",
      "m11", "m12", "m13", "m14", "m15", "m16", "m17", "m18", "m19", "m20",
      "m21", "m22", "m23", "m24", "m25", "m26", "m27", "m28", "m29", "m30",
      "m31", "m32", "m33", "m34", "m35", "m36", "m37", "m38", "m39", "m40",
      "main", "models", "pkg", "react", "requests", "src", "sub", "tests",
      "utils", "web">>

Rank(segment) == CHOOSE i \in DOMAIN SegmentOrder : SegmentOrder[i] = segment

\* a < b for two names, as Python compares the strings: "/" sorts before
\* every character of a segment
NameLess(a, b) ==
    \E k \in 1..(Len(a) + 1) :
        /\ \A j \in 1..(k - 1) : j <= Len(b) /\ a[j] = b[j]
        /\ k <= Len(b)
        /\ k <= Len(a) => Rank(a[k]) < Rank(b[k])

\* sorted(names)
RECURSIVE sorted(_)
sorted(S) ==
    IF S = {} THEN <<>>
    ELSE LET least == CHOOSE x \in S : \A y \in S \ {x} : NameLess(x, y)
         IN  <<least>> \o sorted(S \ {least})

\* the elements of a sequence
Range(seq) == {seq[i] : i \in DOMAIN seq}

\* list(set(...)): the elements of a set in an order that the hash seed of
\* the process decides
Orderings(S) ==
    {seq \in [1..Cardinality(S) -> S] : Range(seq) = S}

\* the source files of the parsed modules: directory segments, stem and
\* extension of the path, and the language
File(dirs, stem, ext, language) ==
    [dirs |-> dirs, stem |-> stem, ext |-> ext, language |-> language]

SourceFiles ==
    {File(<<"app">>, "main", ".py", "python"),
     File(<<"app">>, "utils", ".py", "python"),
     File(<<"src", "app">>, "main", ".py", "python"),
     File(<<"src", "app">>, "utils", ".py", "python"),
     File(<<"app">>, "__init__", ".py", "python"),
     File(<<"web">>, "index", ".js", "javascript")}

\* the import statements of the modules: "import a.b" and "from a.b import x"
\* with `dots` leading dots in Python; "import x from 'a/b'" with the
\* relative prefix "./" (dots = 1), "../" (dots = 2) or none in JavaScript
Import(language, form, dots, module) ==
    [language |-> language, form |-> form, dots |-> dots, module |-> module]

ImportStatements ==
    {Import("python", "from", 0, <<"app", "utils">>),
     Import("python", "import", 0, <<"utils">>),
     Import("python", "import", 0, <<"app">>),
     Import("python", "import", 0, <<"requests">>),
     Import("python", "from", 2, <<"utils">>),
     Import("javascript", "from", 1, <<"index">>),
     Import("javascript", "from", 2, <<"utils">>),
     Import("javascript", "from", 0, <<"react">>)}

\* the import lists of a module: no, one or two statements of its language
ImportLists(language) ==
    LET stmts == {t \in ImportStatements : t.language = language}
    IN  {<<>>} \cup {<<s>> : s \in stmts} \cup {<<s, t>> : s \in stmts, t \in stmts}

\* CanonicalModule: one parsed file with its import statements
CanonicalModules ==
    UNION {{[file |-> f, imports |-> l] : l \in ImportLists(f.language)} :
              f \in SourceFiles}

\* at most this many import statements in the parsed files of a repository
MaxImports == 2

\* CanonicalAST.modules: at most two parsed files, each parsed once
CanonicalASTs ==
    {{}} \cup {{m} : m \in CanonicalModules}
         \cup UNION {{{m, n} : n \in {x \in CanonicalModules :
                                         /\ x.file # m.file
                                         /\ Len(x.imports) + Len(m.imports) <= MaxImports}} :
                        m \in CanonicalModules}

\* the directories that detect_modules reports and that hold an __init__.py
PackageDirectories == {{}, {<<"app">>}, {<<"src", "app">>}}

\* the inputs of build_import_graph
FlowInputs ==
    {[modules |-> m, detected |-> d, packages |-> d] :
        m \in CanonicalASTs, d \in PackageDirectories}

NoFlowInput == [modules |-> {}, detected |-> {}, packages |-> {}]

\* _normalize_module_name: the "./" prefix, the extension and a trailing
\* "/__init__" are removed, then the first of the prefixes "src/", "lib/",
\* "pkg/", "app/", "internal/" that the path starts with; <<>> stands for None
_normalize_module_name(file) ==
    LET path == file.dirs \o (IF file.stem = "" THEN <<>> ELSE <<file.stem>>)
        rel == IF path # <<>> /\ Head(path) = "." THEN Tail(path) ELSE path
        pkg == IF Len(rel) >= 2 /\ rel[Len(rel)] = "__init__"
               THEN SubSeq(rel, 1, Len(rel) - 1) ELSE rel
    IN  IF Len(pkg) >= 2 /\ Head(pkg) \in {"src", "lib", "pkg", "app", "internal"}
        THEN Tail(pkg) ELSE pkg

\* _parse_import_statement for Python and JavaScript: the module names of
\* one statement.  Python: a module starting with "." is skipped, "." becomes
\* "/".  JavaScript: only a relative module is kept, and lstrip("./") removes
\* its whole relative prefix.
_parse_import_statement(stmt) ==
    IF stmt.language = "python"
    THEN IF stmt.form = "from" /\ stmt.dots > 0 THEN <<>> ELSE <<stmt.module>>
    ELSE IF stmt.dots > 0 THEN <<stmt.module>> ELSE <<>>

\* _normalize_imported_module: "./" is removed, a name starting with "../"
\* is dropped; <<>> stands for None
_normalize_imported_module(imported) ==
    LET rel == IF imported # <<>> /\ Head(imported) = "." THEN Tail(imported)
               ELSE imported
    IN  IF rel # <<>> /\ Head(rel) = ".." THEN <<>> ELSE rel

\* the dotted name of a package directory, str(rel_path).replace("/", ".")
Dotted(dir) == IF dir = <<"src", "app">> THEN <<"src.app">> ELSE dir

\* _identify_internal_modules: the names of the parsed modules and their
\* parent packages, the detected modules and the package directories
_identify_internal_modules(modules, detected, packages) ==
    LET names == {_normalize_module_name(m.file) : m \in modules} \ {<<>>}
    IN  names
        \cup UNION {{SubSeq(n, 1, i) : i \in 1..(Len(n) - 1)} : n \in names}
        \cup detected
        \cup packages \cup {Dotted(d) : d \in packages}

\* "Filter to internal modules only", with no filter
Resolves_Any(normalized, internal) == TRUE

\* "Filter to internal modules only": normalized in self._internal_modules
Resolves(normalized, internal) == normalized \in internal

\* the edges that build_import_graph appends for one module
RECURSIVE ImportsOf(_, _, _)
ImportsOf(name, stmts, internal) ==
    IF stmts = <<>> THEN <<>>
    ELSE LET imported == _parse_import_statement(Head(stmts))
             normalized == IF imported = <<>> THEN <<>>
                           ELSE _normalize_imported_module(imported[1])
         IN  (IF normalized # <<>> /\ Resolves(normalized, internal)
              THEN <<(<<name, normalized>>)>> ELSE <<>>)
             \o ImportsOf(name, Tail(stmts), internal)

\* set(edges): the edges of all modules, without duplicates
EdgeSet(modules, internal) ==
    UNION {Range(ImportsOf(_normalize_module_name(m.file), m.imports, internal)) :
              m \in {x \in modules : _normalize_module_name(x.file) # <<>>}}

\* models/canonical/module.py ImportGraph
ImportGraph(nodes, edges) == [built |-> TRUE, nodes |-> nodes, edges |-> edges]

NoImportGraph == [built |-> FALSE, nodes |-> <<>>, edges |-> <<>>]

\* the node set of build_import_graph without nodes.add(normalized)
GraphNodes_ModulesOnly(modules, edges) ==
    {_normalize_module_name(m.file) : m \in modules} \ {<<>>}

\* the node set of build_import_graph: nodes.add(module_name) and
\* nodes.add(normalized)
GraphNodes(modules, edges) ==
    ({_normalize_module_name(m.file) : m \in modules} \ {<<>>})
        \cup {e[2] : e \in edges}

\* build_import_graph: the graphs it can return, one for each order of
\* list(set(edges))
build_import_graph(a) ==
    LET internal == _identify_internal_modules(a.modules, a.detected, a.packages)
        edges == EdgeSet(a.modules, internal)
    IN  {ImportGraph(sorted(GraphNodes(a.modules, edges)), order) :
            order \in Orderings(edges)}

(***************************************************************************)
(* Mermaid rendering (analyzers/diagrams/mermaid.py)                       *)
(***************************************************************************)
MAX_NODES_FULL_DETAIL == 15

MAX_NODES_MODULE_LEVEL == 30

\* _collapse_to_top_level that excludes no package
excluded_packages_None == {}

\* excluded_packages of _collapse_to_top_level
excluded_packages == {"tests", "test", "spec", "specs", "__tests__"}

\* one line of the Mermaid text: the init directive, "flowchart TD", the
\* title comment, an empty line, a node definition "id shape(label)", an
\* edge "source --> target" or the placeholder of an empty graph
TextLine(kind, a, b, shape) == [kind |-> kind, a |-> a, b |-> b, shape |-> shape]

\* the "_"-separated words of a segment
Words(segment) ==
    CASE segment = "app_utils" -> <<"app", "utils">>
      [] segment = "__init__" -> <<"", "", "init", "", "">>
      [] OTHER -> <<segment>>

\* node.replace("/", "_"): the words of all segments, which "_" separates
\* in the identifier
RECURSIVE Underscored(_)
Underscored(node) ==
    IF node = <<>> THEN <<>> ELSE Words(Head(node)) \o Underscored(Tail(node))

\* _sanitize_node_id: "/" becomes "_"; an identifier that does not start
\* with a letter is prefixed with "m{index}_" (prefix = -1: no prefix)
_sanitize_node_id(node, index) ==
    IF node # <<>> /\ Head(node) = "__init__"
    THEN [prefix |-> index, parts |-> Underscored(node)]
    ELSE [prefix |-> -1, parts |-> Underscored(node)]

\* _get_display_name: the last segment of the path
_get_display_name(node) == node[Len(node)]

\* _get_node_shape: the first of the shapes whose keyword occurs in the path
_get_node_shape(node) ==
    LET has(words) == \E i \in DOMAIN node : node[i] \in words
    IN  IF has({"cli"}) THEN "cli"
        ELSE IF has({"api"}) THEN "api"
        ELSE IF has({"models"}) THEN "models"
        ELSE IF has({"utils"}) THEN "utils"
        ELSE "default"

\* the position of a node in a list of nodes (enumerate), counted from 0
IndexOf(nodes, node) == (CHOOSE i \in DOMAIN nodes : nodes[i] = node) - 1

\* the edge lines of _generate_mermaid_syntax: edges between unknown nodes
\* are skipped
RECURSIVE EdgeLines(_, _)
EdgeLines(nodes, edges) ==
    IF edges = <<>> THEN <<>>
    ELSE LET source == Head(edges)[1]
             target == Head(edges)[2]
         IN  (IF source \in Range(nodes) /\ target \in Range(nodes)
              THEN <<TextLine("edge", _sanitize_node_id(source, IndexOf(nodes, source)),
                              _sanitize_node_id(target, IndexOf(nodes, target)), "")>>
              ELSE <<>>)
             \o EdgeLines(nodes, Tail(edges))

\* _generate_mermaid_syntax: the lines of the text, joined by "\n"
_generate_mermaid_syntax(nodes, edges) ==
    <<TextLine("init", <<>>, <<>>, ""),
      TextLine("flowchart TD", <<>>, <<>>, ""),
      TextLine("title", <<>>, <<>>, ""),
      TextLine("", <<>>, <<>>, "")>>
    \o [i \in DOMAIN nodes |->
           TextLine("node", _sanitize_node_id(nodes[i], i - 1),
                    <<_get_display_name(nodes[i])>>, _get_node_shape(nodes[i]))]
    \o <<TextLine("", <<>>, <<>>, "")>>
    \o EdgeLines(nodes, edges)

\* the first k segments of a name
Prefix(node, k) == SubSeq(node, 1, IF Len(node) < k THEN Len(node) ELSE k)

\* _group_submodules: every node is cut to two segments, edges inside one
\* group are dropped; the grouped edges come in the order of list(set)
_group_submodules(nodes, edges) ==
    LET grouped_edges ==
            {<<Prefix(e[1], 2), Prefix(e[2], 2)>> :
                e \in {x \in Range(edges) : Prefix(x[1], 2) # Prefix(x[2], 2)}}
    IN  {[nodes |-> sorted({Prefix(n, 2) : n \in Range(nodes)}), edges |-> order] :
            order \in Orderings(grouped_edges)}

\* _collapse_to_top_level: nodes of the excluded packages are dropped, nodes
\* of a package with three or more nodes are cut to two segments, the others
\* to one; edges of excluded packages, of unmapped nodes and inside one
\* group are dropped
_collapse_to_top_level(nodes, edges) ==
    LET package_counts(pkg) == Cardinality({i \in DOMAIN nodes : nodes[i][1] = pkg})
        main_packages == {pkg \in {nodes[i][1] : i \in DOMAIN nodes} :
                             pkg \notin excluded_packages /\ package_counts(pkg) >= 3}
        collapsed(n) == IF n[1] \in main_packages /\ Len(n) >= 2
                        THEN Prefix(n, 2) ELSE Prefix(n, 1)
        mapped == {n \in Range(nodes) : n[1] \notin excluded_packages}
        collapsed_edges ==
            {<<collapsed(e[1]), collapsed(e[2])>> :
                e \in {x \in Range(edges) :
                          /\ x[1][1] \notin excluded_packages
                          /\ x[2][1] \notin excluded_packages
                          /\ x[1] \in mapped /\ x[2] \in mapped
                          /\ collapsed(x[1]) # collapsed(x[2])}}
    IN  {[nodes |-> sorted({collapsed(n) : n \in mapped}), edges |-> order] :
            order \in Orderings(collapsed_edges)}

\* models/canonical/module.py ModuleFlowDiagram
ModuleFlowDiagram(mermaid, node_count, simplified) ==
    [made |-> TRUE, mermaid |-> mermaid, node_count |-> node_count,
     simplified |-> simplified]

NoDiagram == [made |-> FALSE, mermaid |-> <<>>, node_count |-> 0, simplified |-> FALSE]

\* the threshold comparison with >= in place of >
Exceeds_Inclusive(count, limit) == count >= limit

\* len(nodes) > MAX_NODES_MODULE_LEVEL, len(nodes) > MAX_NODES_FULL_DETAIL
Exceeds(count, limit) == count > limit

\* generate_module_flowchart: the diagrams it can return for a graph
generate_module_flowchart(graph) ==
    IF graph.nodes = <<>>
    THEN {ModuleFlowDiagram(<<TextLine("flowchart TD", <<>>, <<>>, ""),
                              TextLine("empty", <<>>, <<>>, "")>>, 0, FALSE)}
    ELSE LET level == IF Exceeds(Len(graph.nodes), MAX_NODES_MODULE_LEVEL) THEN "top"
                      ELSE IF Exceeds(Len(graph.nodes), MAX_NODES_FULL_DETAIL)
                      THEN "group"
                      ELSE "full"
             shown == CASE level = "top" ->
                               _collapse_to_top_level(graph.nodes, graph.edges)
                        [] level = "group" ->
                               _group_submodules(graph.nodes, graph.edges)
                        [] OTHER -> {[nodes |-> graph.nodes, edges |-> graph.edges]}
         IN  {ModuleFlowDiagram(_generate_mermaid_syntax(s.nodes, s.edges),
                                Len(s.nodes), level # "full") : s \in shown}

\* nothing of the flow documentation has been computed
FlowIdle ==
    /\ ast = NoFlowInput
    /\ built_graph = NoImportGraph
    /\ module_flow_diagram = NoDiagram
    /\ runs = <<>>

(***************************************************************************)
(* The registry on its own (analyzers/registry.py): the adapter classes    *)
(* are kept with the names, and constructing or probing an adapter can     *)
(* raise                                                                   *)
(***************************************************************************)
\* the two capabilities of the registry
Capabilities == {"sbom", "diagram"}

\* the names under which adapters are registered
ToolNames == {"syft", "trivy"}

\* every name an adapter can be registered under: those, and the name of
\* the default diagram generator
AdapterNames == ToolNames \cup {"terravision"}

\* the name argument of a retrieval: None ("none"), the empty string or a
\* tool name
RequestedNames == {"none", ""} \cup ToolNames

\* an adapter class: whether its constructor returns ("ok") or raises
\* ("raise"), and whether check_available returns True, returns False or
\* raises
AdapterClass(id, init, check) == [id |-> id, init |-> init, check |-> check]

AdapterClasses ==
    {AdapterClass("MockAdapter", "ok", "true"),
     AdapterClass("MockAdapterUnavailable", "ok", "false"),
     AdapterClass("BrokenConstructor", "raise", "true"),
     AdapterClass("BrokenProbe", "ok", "raise")}

\* ToolRegistry.__init__: no adapters, no defaults
EmptyRegistry ==
    [adapters |-> [c \in Capabilities |-> [n \in {} |-> AdapterClass("", "", "")]],
     default |-> [c \in Capabilities |-> "none"]]

\* an adapter object: adapter_class(name)
Adapter(capability, adapter_class, name) ==
    [capability |-> capability, class |-> adapter_class.id, name |-> name]

\* what one call of the registry did and returned: result is "returned",
\* "not_available" (ToolNotAvailableError) or "raised" (another exception);
\* constructed and probed are the adapters it instantiated and the adapters
\* whose check_available it called
Call(op, capability, name, outcome, value, constructed, probed) ==
    [op |-> op, capability |-> capability, name |-> name, result |-> outcome,
     value |-> value, constructed |-> constructed, probed |-> probed]

NoCall == Call("none", "none", "none", "none", {}, {}, {})

\* register_sbom_adapter / register_diagram_adapter that also instantiates
\* the class it registers
register_adapter_Eager(reg, capability, name, adapter_class, is_default) ==
    [registry |->
         [adapters |-> [reg.adapters EXCEPT ![capability] =
                            [n \in DOMAIN @ \cup {name} |->
                                IF n = name THEN adapter_class ELSE @[n]]],
          default |-> [reg.default EXCEPT ![capability] =
                          IF is_default THEN name ELSE @]],
     constructed |-> {Adapter(capability, adapter_class, name)},
     probed |-> {}]

\* register_sbom_adapter / register_diagram_adapter: the class is stored
\* under the name, and the name becomes the default if is_default
register_adapter(reg, capability, name, adapter_class, is_default) ==
    [registry |->
         [adapters |-> [reg.adapters EXCEPT ![capability] =
                            [n \in DOMAIN @ \cup {name} |->
                                IF n = name THEN adapter_class ELSE @[n]]],
          default |-> [reg.default EXCEPT ![capability] =
                          IF is_default THEN name ELSE @]],
     constructed |-> {},
     probed |-> {}]

\* `name or default` where only None selects the default
tool_name_or_default_NoneOnly(name, default) == IF name = "none" THEN default ELSE name

\* tool_name = name or self._default_sbom: None and the empty string are
\* falsy
tool_name_or_default(name, default) == IF name \in {"none", ""} THEN default ELSE name

\* get_sbom_adapter / get_diagram_adapter
get_adapter(reg, capability, name) ==
    LET chosen == tool_name_or_default(name, reg.default[capability])
    IN  IF chosen = "none" \/ chosen \notin DOMAIN reg.adapters[capability]
        THEN Call("get", capability, name, "not_available", {}, {}, {})
        ELSE LET adapter_class == reg.adapters[capability][chosen]
                 adapter == Adapter(capability, adapter_class, chosen)
             IN  IF adapter_class.init = "raise"
                 THEN Call("get", capability, name, "raised", {}, {}, {})
                 ELSE Call("get", capability, name, "returned", {adapter},
                           {adapter}, {})

\* analyzers/sbom/syft.py SyftAdapter and analyzers/diagrams/terravision.py
\* TerravisionAdapter: the constructors only store their arguments, and
\* check_available looks the tool up on the PATH (here: installed)
SyftAdapter == AdapterClass("SyftAdapter", "ok", "true")

TerravisionAdapter == AdapterClass("TerravisionAdapter", "ok", "true")

\* analyzers/__init__.py setup_default_adapters on a registry that keeps
\* the classes: both default adapters are registered with is_default=True
SetupDefaultAdapters(reg) ==
    register_adapter(
        register_adapter(reg, "sbom", "syft", SyftAdapter, TRUE).registry,
        "diagram", "terravision", TerravisionAdapter, TRUE).registry

\* a loop body of check_tool_availability without its except clause
swallowed_Never == FALSE

\* "except Exception: result[...][name] = False"
swallowed == TRUE

\* check_tool_availability: every registered class is instantiated and
\* probed inside try/except; the value is the availability of each adapter
check_tool_availability(reg) ==
    LET known == {<<c, n>> \in Capabilities \X AdapterNames :
                     n \in DOMAIN reg.adapters[c]}
        fails(p) == \/ reg.adapters[p[1]][p[2]].init = "raise"
                    \/ reg.adapters[p[1]][p[2]].check = "raise"
        object(p) == Adapter(p[1], reg.adapters[p[1]][p[2]], p[2])
    IN  IF ~swallowed /\ \E p \in known : fails(p)
        THEN Call("check_tool_availability", "none", "none", "raised", {}, {}, {})
        ELSE Call("check_tool_availability", "none", "none", "returned",
                  {[capability |-> p[1], name |-> p[2],
                    available |-> ~fails(p)
                                  /\ reg.adapters[p[1]][p[2]].check = "true"] :
                       p \in known},
                  {object(p) : p \in {q \in known :
                                         reg.adapters[q[1]][q[2]].init = "ok"}},
                  {object(p) : p \in {q \in known :
                                         reg.adapters[q[1]][q[2]].init = "ok"}})

\* the registry under test has not been created
RegistryIdle ==
    /\ tool_registry = EmptyRegistry
    /\ last_call = NoCall
    /\ populated = FALSE

(***************************************************************************)
(* The merge of SBOM packages into the dependency inventory                *)
(* (pipeline.py _merge_sbom_data)                                          *)
(***************************************************************************)
\* at most this many parsed dependencies and this many SBOM packages
MaxDeps == 2

\* models/analysis.py Dependency; license "none" is None
Dependency(name, ecosystem, source_file, license) ==
    [name |-> name, ecosystem |-> ecosystem, source_file |-> source_file,
     license |-> license]

\* the dependencies that the manifests of a repository declare
ParsedDependencies ==
    {Dependency(name, "pypi", file, license) :
        name \in {"requests", "flask"},
        file \in {"requirements.txt", "pyproject.toml"},
        license \in {"none", "MIT"}}

\* a package of the CanonicalSBOM: name, ecosystem and license
SbomPackage(name, ecosystem, license) ==
    [name |-> name, ecosystem |-> ecosystem, license |-> license]

SbomPackages ==
    {SbomPackage(name, "pypi", license) :
        name \in {"requests", "flask"}, license \in {"none", "MIT", "BSD"}}

\* the lists of at most k elements of S
SeqsUpTo(S, k) == UNION {[1..n -> S] : n \in 0..k}

\* the inputs of a merge
MergeInputs ==
    {[dependencies |-> d, packages |-> p] :
        d \in SeqsUpTo(ParsedDependencies, MaxDeps),
        p \in SeqsUpTo(SbomPackages, MaxDeps)}

\* existing_deps[(name, ecosystem)]: the position of the last dependency
\* with that key in the list as it was before the loop, 0 if there is none
existing_deps(dependencies, name, ecosystem) ==
    LET same == {i \in DOMAIN dependencies :
                    /\ dependencies[i].name = name
                    /\ dependencies[i].ecosystem = ecosystem}
    IN  IF same = {} THEN 0 ELSE CHOOSE i \in same : \A j \in same : j <= i

\* the loop of _merge_sbom_data over the packages: `dependencies` is the
\* list so far, `parsed` the list before the loop
RECURSIVE MergePackages(_, _, _)
MergePackages(dependencies, parsed, packages) ==
    IF packages = <<>> THEN dependencies
    ELSE LET pkg == Head(packages)
             at == existing_deps(parsed, pkg.name, pkg.ecosystem)
             next == IF at # 0
                     THEN IF pkg.license # "none" /\ dependencies[at].license = "none"
                          THEN [dependencies EXCEPT ![at].license = pkg.license]
                          ELSE dependencies
                     ELSE Append(dependencies,
                                 Dependency(pkg.name, pkg.ecosystem, "SBOM",
                                            pkg.license))
         IN  MergePackages(next, parsed, Tail(packages))

_merge_sbom_data(dependencies, packages) ==
    MergePackages(dependencies, dependencies, packages)

\* no merge is under way
MergeIdle ==
    /\ merge_input = [dependencies |-> <<>>, packages |-> <<>>]
    /\ technology_stack = [merged |-> FALSE, dependencies |-> <<>>]

\* the components exercised on their own are at rest during a pipeline run
UnitsIdle == SbomIdle /\ FlowIdle /\ RegistryIdle /\ MergeIdle

(***************************************************************************)
(* Initial state                                                           *)
(***************************************************************************)
Init ==
    /\ pc = "start"
    /\ cli = NoCli
    /\ config \in Configs
    /\ options = PipelineOptions
    /\ preflight = NoPreflight
    /\ registry = NoRegistry
    /\ pipelines = 0
    /\ result = NoResult
    /\ exc = "none"
    /\ trace = <<>>
    /\ UnitsIdle

(***************************************************************************)
(* AnalysisPipeline.__init__ and run() up to the first stage               *)
(***************************************************************************)
\* A library caller: AnalysisPipeline(config) followed by run(repo, options)
\* with options of the caller's choice.
PipelineInit ==
    /\ pc = "start"
    /\ \E o \in AllOptions : options' = o
    /\ registry' = setup_default_adapters(registry)
    /\ pipelines' = pipelines + 1
    /\ pc' = "run"
    /\ UNCHANGED <<unitVars, cli, config, preflight, result, exc, trace>>

\* cli.write: the command line is parsed and the repository validated;
\* an invalid repository exits with code 1
CliValidateRepository ==
    /\ pc = "start"
    /\ \E a \in BOOLEAN, b \in BOOLEAN, c \in BOOLEAN, valid \in BOOLEAN :
        /\ cli' = [invoked |-> TRUE, skip_sbom |-> a, skip_architecture |-> b,
                   skip_llm |-> c, exit_code |-> IF valid THEN -1 ELSE 1]
        /\ pc' = IF valid THEN "cli_preflight" ELSE "cli_exit"
    /\ UNCHANGED <<unitVars, config, options, preflight, registry, pipelines, result, exc, trace>>

\* cli.write: "Run preflight checks"; a PreflightResult without success exits
\* with code 1
CliPreflight ==
    /\ pc = "cli_preflight"
    /\ \E avail \in [CheckNames -> BOOLEAN] :
        LET pre == check_all(avail,
                             IF config.present THEN config.sbom ELSE "syft",
                             IF config.present THEN config.diagrams ELSE "terravision",
                             cli.skip_sbom, cli.skip_architecture, cli.skip_llm)
        IN  /\ \A n \in CheckNames :
                  (\A ch \in pre.checks : ch.name # n) => avail[n]
            /\ preflight' = pre
            /\ pc' = IF ~pre.success THEN "cli_exit" ELSE "cli_pipeline"
            /\ cli' = [cli EXCEPT !.exit_code = IF ~pre.success THEN 1 ELSE @]
    /\ UNCHANGED <<unitVars, config, options, registry, pipelines, result, exc, trace>>

\* cli.write: "Configure pipeline options" and AnalysisPipeline(config=_config)
CliCreatePipeline ==
    /\ pc = "cli_pipeline"
    /\ options' = [PipelineOptions EXCEPT !.skip_sbom = cli.skip_sbom,
                                          !.skip_architecture = cli.skip_architecture,
                                          !.skip_llm = cli.skip_llm]
    /\ registry' = setup_default_adapters(registry)
    /\ pipelines' = pipelines + 1
    /\ pc' = "run"
    /\ UNCHANGED <<unitVars, cli, config, preflight, result, exc, trace>>

\* cli.write after pipeline.run: an exception out of run() exits with 1;
\* otherwise the document is rendered (a rendering failure exits with 1) and
\* the exit code follows the recorded errors
CliFinish ==
    /\ pc \in {"returned", "raised"}
    /\ cli.invoked
    /\ \E rendered \in BOOLEAN :
        cli' = [cli EXCEPT !.exit_code =
                  IF pc = "raised" \/ ~rendered THEN 1
                  ELSE IF \E i \in DOMAIN result.errors : ~result.errors[i].recoverable
                       THEN 1
                  ELSE IF result.errors # <<>> THEN 2
                  ELSE 0]
    /\ pc' = "cli_exit"
    /\ UNCHANGED <<unitVars, config, options, preflight, registry, pipelines, result, exc, trace>>

\* run(): repository.validate() raises ValueError out of run(), otherwise the
\* result is created with status RUNNING.
RunStart ==
    /\ pc = "run"
    /\ \E valid \in BOOLEAN :
        IF valid
        THEN /\ result' = NewResult
             /\ pc' = StageOrder[1]
        ELSE /\ result' = result
             /\ pc' = "raised"
    /\ UNCHANGED <<unitVars, cli, config, options, preflight, registry, pipelines, exc, trace>>

\* Stage 1: _run_dependency_analysis
RunDependencyAnalysis ==
    /\ pc = "dependency"
    /\ IF ShouldRun("dependency", options, result)
       THEN \E out \in Outcomes(trace, {"ok", "raise"}) :
           LET raised == Reraises("dependency", out, options)
           IN  /\ result' =
                    IF out = "ok"
                    THEN [result EXCEPT !.technology_stack.parsed = TRUE]
                    ELSE add_error(result, AnalysisError("dependency", TRUE))
               /\ trace' = trace \o <<Begin("dependency"),
                                      Event("dependency", "parse_directory", out)>>
               /\ exc' = IF raised THEN "Exception" ELSE "none"
               /\ pc' = Continue("dependency", raised)
       ELSE /\ pc' = NextStage("dependency")
            /\ UNCHANGED <<unitVars, result, trace, exc>>
    /\ UNCHANGED <<unitVars, cli, config, options, preflight, registry, pipelines>>

\* RunRepomixCompression that tries the compression again after a failure
RunRepomixCompression_Retry ==
    /\ pc = "repomix"
    /\ IF ShouldRun("repomix", options, result)
       THEN \E out \in Outcomes(trace, {"ok", "raise"}) :
           /\ result' =
                IF out = "ok"
                THEN [result EXCEPT !.compressed_codebase = TRUE,
                                    !.tool_versions = @ \cup {"repomix"}]
                ELSE add_error(result, AnalysisError("repomix", TRUE))
           /\ trace' = trace \o <<Begin("repomix"), Event("repomix", "compress", out)>>
           /\ exc' = "none"
           /\ pc' = IF out = "ok" THEN NextStage("repomix") ELSE "repomix"
       ELSE /\ pc' = NextStage("repomix")
            /\ UNCHANGED <<unitVars, result, trace, exc>>
    /\ UNCHANGED <<unitVars, cli, config, options, preflight, registry, pipelines>>

\* Stage 1b: _run_repomix_compression.  RepomixAdapter() and compress() are
\* one try block; get_version() swallows its own exceptions.
RunRepomixCompression ==
    /\ pc = "repomix"
    /\ IF ShouldRun("repomix", options, result)
       THEN \E out \in Outcomes(trace, {"ok", "raise"}) :
           /\ result' =
                IF out = "ok"
                THEN [result EXCEPT !.compressed_codebase = TRUE,
                                    !.tool_versions = @ \cup {"repomix"}]
                ELSE add_error(result, AnalysisError("repomix", TRUE))
           /\ trace' = trace \o <<Begin("repomix"), Event("repomix", "compress", out)>>
           /\ exc' = IF Reraises("repomix", out, options) THEN "Exception" ELSE "none"
           /\ pc' = Continue("repomix", Reraises("repomix", out, options))
       ELSE /\ pc' = NextStage("repomix")
            /\ UNCHANGED <<unitVars, result, trace, exc>>
    /\ UNCHANGED <<unitVars, cli, config, options, preflight, registry, pipelines>>

\* Stage 2: _run_ast_analysis
RunAstAnalysis ==
    /\ pc = "ast"
    /\ IF ShouldRun("ast", options, result)
       THEN \E out \in Outcomes(trace, {"ok", "raise"}) :
           LET raised == Reraises("ast", out, options)
           IN  /\ result' =
                    IF out = "ok"
                    THEN [result EXCEPT !.source_analysis = TRUE,
                                        !.technology_stack.ast_languages = TRUE]
                    ELSE add_error(result, AnalysisError("ast", TRUE))
               /\ trace' = trace \o <<Begin("ast"), Event("ast", "parse_directory", out)>>
               /\ exc' = IF raised THEN "Exception" ELSE "none"
               /\ pc' = Continue("ast", raised)
       ELSE /\ pc' = NextStage("ast")
            /\ UNCHANGED <<unitVars, result, trace, exc>>
    /\ UNCHANGED <<unitVars, cli, config, options, preflight, registry, pipelines>>

\* the five analyzer calls of _run_flow_documentation, in source order
FlowCalls ==
    <<"detect_modules", "build_import_graph", "detect_entry_points",
      "detect_external_integrations", "generate_module_flowchart">>

\* n copies of e
Repeat(e, n) == [i \in 1..n |-> e]

\* Stage 2b: _run_flow_documentation.  o[i] is the outcome of FlowCalls[i];
\* x_i: the call is executed, f_i: it raised, h_i: the stage has re-raised
\* (fail_fast) at or before step i.
RunFlowDocumentation ==
    /\ pc = "flow"
    /\ IF ShouldRun("flow", options, result)
       THEN \E o \in [1..5 -> {"ok", "raise"}] :
           LET ff == Reraises("flow", "raise", options)
               x1 == TRUE
               f1 == o[1] = "raise"
               h1 == f1 /\ ff
               x2 == ~h1 /\ result.source_analysis
               f2 == x2 /\ o[2] = "raise"
               h2 == h1 \/ (f2 /\ ff)
               import_graph == x2 /\ ~f2
               x3 == ~h2
               f3 == x3 /\ o[3] = "raise"
               h3 == h2 \/ (f3 /\ ff)
               x4 == ~h3
               f4 == x4 /\ o[4] = "raise"
               h4 == h3 \/ (f4 /\ ff)
               x5 == ~h4 /\ import_graph
               f5 == x5 /\ o[5] = "raise"
               h5 == h4 \/ (f5 /\ ff)
               executed == <<x1, x2, x3, x4, x5>>
               failed == {i \in 1..5 : executed[i] /\ o[i] = "raise"}
               calls == [i \in 1..5 |-> [n |-> i, e |-> Event("flow", FlowCalls[i], o[i])]]
               Done(c) == executed[c.n]
               ran == SelectSeq(calls, Done)
           IN  /\ \A i \in 1..5 : ~executed[i] => o[i] = "ok"
               /\ Cardinality(failed) <= Budget(trace)
               /\ result' =
                    [result EXCEPT
                       !.errors = @ \o Repeat(AnalysisError("flow_docs", TRUE),
                                              Cardinality(failed)),
                       !.entry_points = x3 /\ ~f3,
                       !.external_integrations = x4 /\ ~f4,
                       !.module_flow_diagram = x5 /\ ~f5,
                       !.modules = ~h5]
               /\ trace' = trace \o <<Begin("flow")>> \o [i \in 1..Len(ran) |-> ran[i].e]
               /\ exc' = IF h5 THEN "Exception" ELSE "none"
               /\ pc' = Continue("flow", h5)
       ELSE /\ pc' = NextStage("flow")
            /\ UNCHANGED <<unitVars, result, trace, exc>>
    /\ UNCHANGED <<unitVars, cli, config, options, preflight, registry, pipelines>>

\* Stage 3: _run_sbom_analysis.  "syft" is instantiated directly, any other
\* tool name goes through the registry; ToolNotAvailableError is recorded and
\* never re-raised, the other exceptions are re-raised under fail_fast.
RunSbomAnalysis ==
    /\ pc = "sbom"
    /\ IF ShouldRun("sbom", options, result)
       THEN LET tool_name == IF config.present THEN config.sbom ELSE "syft"
                found == tool_name = "syft" \/ get_sbom_adapter(registry, tool_name)
                lookup == IF tool_name = "syft" THEN <<>>
                          ELSE <<Event("sbom", "get_sbom_adapter",
                                       IF found THEN "ok" ELSE "not_registered")>>
            IN  IF ~found
                THEN /\ result' = add_error(result, AnalysisError("sbom", TRUE))
                     /\ trace' = trace \o <<Begin("sbom")>> \o lookup
                     /\ exc' = "none"
                     /\ pc' = NextStage("sbom")
                ELSE \E out \in Outcomes(trace, {"ok", "not_available",
                                                 "execution_failed", "raise"}) :
                    LET raised == Reraises("sbom", out, options)
                        versioned == [result EXCEPT !.tool_versions = @ \cup {"sbom"}]
                    IN  /\ result' =
                             IF out = "ok"
                             THEN [versioned EXCEPT !.sbom = TRUE,
                                                    !.technology_stack.sbom_merged = TRUE]
                             ELSE add_error(versioned, AnalysisError("sbom", TRUE))
                        /\ trace' = trace \o <<Begin("sbom")>> \o lookup
                                          \o <<Event("sbom", "execute", out)>>
                        /\ exc' = IF ~raised THEN "none"
                                  ELSE IF out = "raise" THEN "Exception"
                                  ELSE "ToolExecutionError"
                        /\ pc' = Continue("sbom", raised)
       ELSE /\ pc' = NextStage("sbom")
            /\ UNCHANGED <<unitVars, result, trace, exc>>
    /\ UNCHANGED <<unitVars, cli, config, options, preflight, registry, pipelines>>

\* Stage 4: _run_architecture_analysis
RunArchitectureAnalysis ==
    /\ pc = "architecture"
    /\ IF ShouldRun("architecture", options, result)
       THEN LET tool_name == IF config.present THEN config.diagrams ELSE "terravision"
                found == get_diagram_adapter(registry, tool_name)
                lookup == <<Event("architecture", "get_diagram_adapter",
                                  IF found THEN "ok" ELSE "not_registered")>>
            IN  IF ~found
                THEN /\ result' = add_error(result, AnalysisError("architecture", TRUE))
                     /\ trace' = trace \o <<Begin("architecture")>> \o lookup
                     /\ exc' = "none"
                     /\ pc' = NextStage("architecture")
                ELSE \E out \in Outcomes(trace, {"ok", "not_available",
                                                 "execution_failed", "raise"}) :
                    LET raised == Reraises("architecture", out, options)
                        versioned == [result EXCEPT !.tool_versions = @ \cup {"diagrams"}]
                    IN  /\ result' =
                             IF out = "ok"
                             THEN [versioned EXCEPT !.architecture = TRUE]
                             ELSE add_error(versioned, AnalysisError("architecture", TRUE))
                        /\ trace' = trace \o <<Begin("architecture")>> \o lookup
                                          \o <<Event("architecture", "execute", out)>>
                        /\ exc' = IF ~raised THEN "none"
                                  ELSE IF out = "raise" THEN "Exception"
                                  ELSE "ToolExecutionError"
                        /\ pc' = Continue("architecture", raised)
       ELSE /\ pc' = NextStage("architecture")
            /\ UNCHANGED <<unitVars, result, trace, exc>>
    /\ UNCHANGED <<unitVars, cli, config, options, preflight, registry, pipelines>>

\* _apply_placeholder_summaries that fills the first section only
_apply_placeholder_summaries_FirstOnly(res) ==
    [res EXCEPT !.llm_summaries = [s \in {sections[1]} |-> "placeholder"]]

\* _apply_placeholder_summaries: every section holds its placeholder
_apply_placeholder_summaries(res) ==
    [res EXCEPT !.llm_summaries = [s \in SectionNames |-> "placeholder"]]

\* create_client(LLMConfigModel(...)): LLMConfigModel validates the llm fields
\* of the configuration, create_client itself cannot fail (enabled defaults
\* to True); the result depends on the configuration only
create_client(cfg) == IF cfg.llm_valid THEN "ok" ELSE "invalid"

\* _run_structured_prompting: a section whose summary is empty or whose
\* generation raised falls back to the placeholder; nothing is recorded
SectionText(out) == IF out = "ok" THEN "generated" ELSE "placeholder"

\* Stage 5: the narration branch of run() and _run_llm_summarization
RunLlmSummarization ==
    /\ pc = "llm"
    /\ IF ~ShouldRun("llm", options, result)
       THEN /\ result' = _apply_placeholder_summaries(result)
            /\ pc' = NextStage("llm")
            /\ UNCHANGED <<unitVars, trace, exc>>
       ELSE IF ~config.present \/ ~config.llm_enabled
       THEN /\ result' = _apply_placeholder_summaries(result)
            /\ trace' = Append(trace, Begin("llm"))
            /\ pc' = NextStage("llm")
            /\ UNCHANGED exc
       ELSE IF create_client(config) # "ok"
       THEN /\ result' = add_error(result, LlmRequiredError)
            /\ trace' = trace \o <<Begin("llm"),
                                   Event("llm", "create_client", create_client(config))>>
            /\ exc' = "ValueError"
            /\ pc' = "except"
       ELSE \E probe \in Outcomes(trace, {"ok", "unavailable"}) :
           IF probe # "ok"
           THEN /\ result' = add_error(result, LlmRequiredError)
                /\ trace' = trace \o <<Begin("llm"), Event("llm", "create_client", "ok"),
                                       Event("llm", "check_available", probe)>>
                /\ exc' = "ValueError"
                /\ pc' = "except"
           ELSE \E o \in [SectionNames -> {"ok", "empty", "raise"}] :
                /\ Cardinality({n \in SectionNames : o[n] # "ok"}) <= Budget(trace)
                /\ result' = [result EXCEPT
                       !.llm_summaries = [n \in SectionNames |-> SectionText(o[n])]]
                /\ trace' = trace \o <<Begin("llm"), Event("llm", "create_client", "ok"),
                                       Event("llm", "check_available", "ok")>>
                                  \o [i \in DOMAIN sections |->
                                        Event("llm", sections[i], o[sections[i]])]
                /\ exc' = "none"
                /\ pc' = NextStage("llm")
    /\ UNCHANGED <<unitVars, cli, config, options, preflight, registry, pipelines>>

\* Stage 8: the holistic branch of run() and _run_holistic_overview.
\* generate_holistic_overview swallows an LLMError of the client and returns
\* an empty overview ("llm_error"); any other exception of the stage
\* ("raise") reaches the except clause of run().
RunHolisticOverview ==
    /\ pc = "holistic"
    /\ IF ShouldRun("holistic", options, result)
       THEN IF ~config.present \/ ~config.llm_enabled
            THEN /\ trace' = Append(trace, Begin("holistic"))
                 /\ pc' = NextStage("holistic")
                 /\ UNCHANGED <<unitVars, result, exc>>
            ELSE IF create_client(config) # "ok"
            THEN /\ result' = add_error(result, AnalysisError("holistic_overview", TRUE))
                 /\ trace' = trace \o <<Begin("holistic"),
                        Event("holistic", "create_client", create_client(config))>>
                 /\ pc' = NextStage("holistic")
                 /\ UNCHANGED exc
            ELSE \E out \in Outcomes(trace, {"ok", "llm_error", "raise"}) :
                 /\ result' =
                      IF out = "raise" THEN result
                      ELSE [result EXCEPT !.holistic_overview =
                                IF out = "ok" THEN "generated" ELSE "empty"]
                 /\ trace' = trace \o <<Begin("holistic"),
                        Event("holistic", "create_client", "ok"),
                        Event("holistic", "generate_holistic_overview", out)>>
                 /\ exc' = IF out = "raise" THEN "Exception" ELSE "none"
                 /\ pc' = Continue("holistic", out = "raise")
       ELSE /\ pc' = NextStage("holistic")
            /\ UNCHANGED <<unitVars, result, trace, exc>>
    /\ UNCHANGED <<unitVars, cli, config, options, preflight, registry, pipelines>>

\* FinalStatus that fails the run on any recorded error
FinalStatus_AnyError(res) == IF has_errors(res) THEN "failed" ELSE "completed"

\* the termination rule of run(): failed iff some recorded error is not
\* recoverable
FinalStatus(res) ==
    IF has_errors(res) /\ \E i \in DOMAIN res.errors : ~res.errors[i].recoverable
    THEN "failed"
    ELSE "completed"

\* run(): "Mark complete", the last statement of the try block
MarkComplete ==
    /\ pc = "mark"
    /\ result' = [result EXCEPT !.status = FinalStatus(result)]
    /\ pc' = "return"
    /\ UNCHANGED <<unitVars, cli, config, options, preflight, registry, pipelines, exc, trace>>

\* ExceptSetStatus of a run() that lets the exception out instead of
\* handling it
ExceptSetStatus_Reraise ==
    /\ pc = "except"
    /\ pc' = "raised"
    /\ UNCHANGED <<unitVars, cli, config, options, preflight, registry, pipelines, result, exc, trace>>

\* run(): except Exception, first statement: result.status = FAILED
ExceptSetStatus ==
    /\ pc = "except"
    /\ result' = [result EXCEPT !.status = "failed"]
    /\ pc' = "except_add"
    /\ UNCHANGED <<unitVars, cli, config, options, preflight, registry, pipelines, exc, trace>>

\* run(): except Exception, second statement: result.add_error(pipeline error)
ExceptAddError ==
    /\ pc = "except_add"
    /\ result' = add_error(result, AnalysisError("pipeline", FALSE))
    /\ exc' = "none"
    /\ pc' = "return"
    /\ UNCHANGED <<unitVars, cli, config, options, preflight, registry, pipelines, trace>>

\* run(): return result
Return ==
    /\ pc = "return"
    /\ pc' = "returned"
    /\ UNCHANGED <<unitVars, cli, config, options, preflight, registry, pipelines, result, exc, trace>>

Next ==
    \/ PipelineInit
    \/ CliValidateRepository
    \/ CliPreflight
    \/ CliCreatePipeline
    \/ CliFinish
    \/ RunStart
    \/ RunDependencyAnalysis
    \/ RunRepomixCompression
    \/ RunAstAnalysis
    \/ RunFlowDocumentation
    \/ RunSbomAnalysis
    \/ RunArchitectureAnalysis
    \/ RunLlmSummarization
    \/ RunHolisticOverview
    \/ MarkComplete
    \/ ExceptSetStatus
    \/ ExceptAddError
    \/ Return

Spec == Init /\ [][Next]_vars

(***************************************************************************)
(* The SBOM scan on its own: SyftAdapter.execute with the resolver that    *)
(* _run_sbom_analysis hands to it, over every directory and scanner output *)
(***************************************************************************)
\* no pipeline is running
PipelineIdle ==
    /\ pc = "idle"
    /\ cli = NoCli
    /\ config = CHOOSE c \in Configs : ~c.present
    /\ options = PipelineOptions
    /\ preflight = NoPreflight
    /\ registry = NoRegistry
    /\ pipelines = 0
    /\ result = NoResult
    /\ exc = "none"
    /\ trace = <<>>

\* the outputs of one run of the scanner
SyftOutputs == {<<>>} \cup {<<a>> : a \in Artifacts}

InitSbom ==
    /\ PipelineIdle
    /\ MergeIdle
    /\ RegistryIdle
    /\ FlowIdle
    /\ directory \in Directories
    /\ _direct_deps = NoDirectDeps
    /\ sbom = NoSbom

\* resolver.resolve_from_directory(directory) called on the resolver itself
ResolveFromDirectory ==
    /\ ~sbom.ran
    /\ _direct_deps = NoDirectDeps
    /\ _direct_deps' = resolve_from_directory(directory)
    /\ UNCHANGED <<pipelineVars, flowVars, registryVars, mergeVars, directory, sbom>>

\* SyftAdapter.execute: ToolNotAvailableError when the tool is missing,
\* ToolExecutionError when the scan fails; otherwise the manifests are
\* resolved and every artifact is transformed
SyftExecute ==
    /\ ~sbom.ran
    /\ \E out \in {"ok", "not_available", "execution_failed"}, syft_output \in SyftOutputs :
        IF out = "ok"
        THEN /\ _direct_deps' = resolve_from_directory(directory)
             /\ sbom' = [ran |-> TRUE, outcome |-> out,
                         packages |-> _transform_to_canonical(
                                          resolve_from_directory(directory), syft_output)]
        ELSE /\ sbom' = [ran |-> TRUE, outcome |-> out, packages |-> <<>>]
             /\ UNCHANGED _direct_deps
    /\ UNCHANGED <<pipelineVars, flowVars, registryVars, mergeVars, directory>>

NextSbom ==
    \/ ResolveFromDirectory
    \/ SyftExecute

SpecSbom == InitSbom /\ [][NextSbom]_vars

(***************************************************************************)
(* The flow documentation on its own: build_import_graph and               *)
(* generate_module_flowchart as _run_flow_documentation calls them, once   *)
(* per run of the program over one unchanged repository                    *)
(***************************************************************************)
\* at most this many runs over the repository
MaxRuns == 2

InitFlow ==
    /\ PipelineIdle
    /\ MergeIdle
    /\ RegistryIdle
    /\ SbomIdle
    /\ ast \in FlowInputs
    /\ built_graph = NoImportGraph
    /\ module_flow_diagram = NoDiagram
    /\ runs = <<>>

\* build_import_graph(repo_path, result.source_analysis, detected_modules) in
\* a new process
BuildImportGraph ==
    /\ ~built_graph.built
    /\ Len(runs) < MaxRuns
    /\ built_graph' \in build_import_graph(ast)
    /\ module_flow_diagram' = NoDiagram
    /\ UNCHANGED <<pipelineVars, sbomVars, registryVars, mergeVars, ast, runs>>

\* generate_module_flowchart(import_graph); the run ends with it
GenerateModuleFlowchart ==
    /\ built_graph.built
    /\ module_flow_diagram' \in generate_module_flowchart(built_graph)
    /\ runs' = Append(runs, [import_graph |-> built_graph,
                             module_flow_diagram |-> module_flow_diagram'])
    /\ built_graph' = NoImportGraph
    /\ UNCHANGED <<pipelineVars, sbomVars, registryVars, mergeVars, ast>>

NextFlow ==
    \/ BuildImportGraph
    \/ GenerateModuleFlowchart

SpecFlow == InitFlow /\ [][NextFlow]_vars

(***************************************************************************)
(* The renderer on its own, over import graphs of every size up to         *)
(* MaxNodes                                                                *)
(***************************************************************************)
\* the largest import graph that is rendered
MaxNodes == 32

\* the last segments of the nodes of these graphs
LeafNames ==
    <<"m01", "m02", "m03", "m04", "m05", "m06", "m07", "m08", "m09", "m10",
      "m11", "m12", "m13", "m14", "m15", "m16", "m17", "m18", "m19", "m20",
      "m21", "m22", "m23", "m24", "m25", "m26", "m27", "m28", "m29", "m30",
      "m31", "m32", "m33", "m34", "m35", "m36", "m37", "m38", "m39", "m40">>

\* the i-th node of a graph: top-level modules, modules of one nested
\* package, a mixture with a test package and two sub-packages, top-level
\* modules beside a package of two modules, or beside app/utils and
\* app_utils
NodeOf(layout, i) ==
    CASE layout = "flat"   -> <<LeafNames[i]>>
      [] layout = "nested" -> <<"pkg", "sub", LeafNames[i]>>
      [] layout = "small"  -> IF i <= 2 THEN <<"web", LeafNames[i]>>
                              ELSE <<LeafNames[i]>>
      [] layout = "alike"  -> IF i = 1 THEN <<"app", "utils">>
                              ELSE IF i = 2 THEN <<"app_utils">>
                              ELSE <<LeafNames[i]>>
      [] layout = "mixed"  ->
             CASE i % 4 = 0 -> <<"tests", LeafNames[i]>>
               [] i % 4 = 1 -> <<"pkg", "sub", LeafNames[i]>>
               [] i % 4 = 2 -> <<"pkg", "api", LeafNames[i]>>
               [] i % 4 = 3 -> <<LeafNames[i]>>

\* the graphs with n nodes: the first nodes import their successors
GraphsOf(layout, n) ==
    LET edges == {<<NodeOf(layout, i), NodeOf(layout, i + 1)>> :
                     i \in {j \in 1..3 : j + 1 <= n}}
    IN  {ImportGraph(sorted({NodeOf(layout, i) : i \in 1..n}), order) :
            order \in Orderings(edges)}

InitDiagram ==
    /\ PipelineIdle
    /\ MergeIdle
    /\ RegistryIdle
    /\ SbomIdle
    /\ ast = NoFlowInput
    /\ \E layout \in {"flat", "nested", "mixed", "small", "alike"}, n \in 0..MaxNodes :
           built_graph \in GraphsOf(layout, n)
    /\ module_flow_diagram = NoDiagram
    /\ runs = <<>>

NextDiagram == GenerateModuleFlowchart

SpecDiagram == InitDiagram /\ [][NextDiagram]_vars

(***************************************************************************)
(* The registry on its own: registrations, retrievals and availability     *)
(* probes in any order                                                     *)
(***************************************************************************)
InitRegistry ==
    /\ PipelineIdle
    /\ MergeIdle
    /\ SbomIdle
    /\ FlowIdle
    /\ RegistryIdle

\* register_sbom_adapter(name, adapter_class, is_default) and
\* register_diagram_adapter(name, adapter_class, is_default)
RegisterAdapter ==
    \E capability \in Capabilities, name \in ToolNames,
       adapter_class \in AdapterClasses, is_default \in BOOLEAN :
        LET done == register_adapter(tool_registry, capability, name,
                                     adapter_class, is_default)
        IN  /\ tool_registry' = done.registry
            /\ last_call' = Call("register", capability, name, "returned", {},
                                 done.constructed, done.probed)
            /\ UNCHANGED <<pipelineVars, sbomVars, flowVars, mergeVars, populated>>

\* get_sbom_adapter(name) and get_diagram_adapter(name)
GetAdapter ==
    \E capability \in Capabilities, name \in RequestedNames :
        /\ last_call' = get_adapter(tool_registry, capability, name)
        /\ UNCHANGED <<pipelineVars, sbomVars, flowVars, mergeVars, tool_registry, populated>>

\* check_tool_availability()
CheckToolAvailability ==
    /\ last_call' = check_tool_availability(tool_registry)
    /\ UNCHANGED <<pipelineVars, sbomVars, flowVars, mergeVars, tool_registry, populated>>

\* AnalysisPipeline.__init__: setup_default_adapters() on the global
\* registry, which get_registry() creates if there is none
AnalysisPipelineInit ==
    /\ tool_registry' = SetupDefaultAdapters(tool_registry)
    /\ last_call' = Call("setup_default_adapters", "none", "none", "returned",
                         {}, {}, {})
    /\ populated' = TRUE
    /\ UNCHANGED <<pipelineVars, sbomVars, flowVars, mergeVars>>

\* reset_registry(): the global is dropped, the next use starts from an
\* empty registry
reset_registry ==
    /\ tool_registry' = EmptyRegistry
    /\ last_call' = Call("reset_registry", "none", "none", "returned", {}, {}, {})
    /\ populated' = FALSE
    /\ UNCHANGED <<pipelineVars, sbomVars, flowVars, mergeVars>>

NextRegistry ==
    \/ RegisterAdapter
    \/ GetAdapter
    \/ CheckToolAvailability
    \/ AnalysisPipelineInit
    \/ reset_registry

SpecRegistry == InitRegistry /\ [][NextRegistry]_vars

(***************************************************************************)
(* The merge on its own: one call of _merge_sbom_data                      *)
(***************************************************************************)
InitMerge ==
    /\ PipelineIdle
    /\ SbomIdle
    /\ FlowIdle
    /\ RegistryIdle
    /\ merge_input \in MergeInputs
    /\ technology_stack = [merged |-> FALSE,
                           dependencies |-> merge_input.dependencies]

\* self._merge_sbom_data(result, sbom)
MergeSbomData ==
    /\ ~technology_stack.merged
    /\ technology_stack' =
           [merged |-> TRUE,
            dependencies |-> _merge_sbom_data(technology_stack.dependencies,
                                              merge_input.packages)]
    /\ UNCHANGED <<pipelineVars, sbomVars, flowVars, registryVars, merge_input>>

NextMerge == MergeSbomData

SpecMerge == InitMerge /\ [][NextMerge]_vars

(***************************************************************************)
(* Vocabulary of the properties                                            *)
(***************************************************************************)
\* run() has handed an AnalysisResult to its caller
ResultReturned == pc = "returned" \/ (pc = "cli_exit" /\ result.status # "none")

HasNonRecoverable(res) == \E i \in DOMAIN res.errors : ~res.errors[i].recoverable

DeterministicStages == {"dependency", "repomix", "ast", "flow", "sbom", "architecture"}

GenerativeStages == {"llm", "holistic"}

\* the order the specification fixes for the stages
FixedOrder ==
    <<"dependency", "repomix", "ast", "flow", "sbom", "architecture", "llm", "holistic">>

Position(stage) == CHOOSE i \in DOMAIN FixedOrder : FixedOrder[i] = stage

IsBegin(e) == e.call = "begin"

\* create_client, check_available or a completion of the generative service
IsGenerativeCall(e) == e.stage \in GenerativeStages /\ ~IsBegin(e)

\* outcomes that are an exception raised inside a stage
ExceptionOutcomes ==
    {"raise", "not_available", "execution_failed", "not_registered", "invalid"}

\* the stage is not skipped in this run: its skip flag is unset and what it
\* requires is there (flow-documentation requires the structure parse,
\* holistic narration requires the compressed artifact)
Requested(stage) ==
    CASE stage = "dependency" -> ~options.skip_dependencies
      [] stage = "repomix" -> ~options.skip_repomix
      [] stage = "ast" -> ~options.skip_ast
      [] stage = "flow" -> ~options.skip_flow_docs /\ ~options.skip_ast
      [] stage = "sbom" -> ~options.skip_sbom
      [] stage = "architecture" -> ~options.skip_architecture
      [] stage = "llm" -> ~options.skip_llm
      [] stage = "holistic" ->
            ~options.skip_repomix /\ ~options.skip_llm /\ result.compressed_codebase

\* the stage method was entered before position k of the trace
BegunBefore(stage, k) == \E j \in 1..(k - 1) : trace[j] = Begin(stage)

BegunAfter(stage, k) == \E j \in (k + 1)..Len(trace) : trace[j] = Begin(stage)

\* the component name under which a stage records its errors
Component(stage) == IF stage = "flow" THEN "flow_docs" ELSE stage

ErrorsOf(component) ==
    {i \in DOMAIN result.errors : result.errors[i].component = component}

\* an exception raised by an invocation of a deterministic stage
IsDeterministicFailure(e) ==
    e.stage \in DeterministicStages /\ e.out \in ExceptionOutcomes

\* the narration stage found the generative capability unavailable
IsUnavailability(e) == e.stage = "llm" /\ e.out \in {"invalid", "unavailable"}

\* the status changes the lifecycle pending -> running -> {completed, failed}
\* allows, a result being created pending or already running
StatusTransitions ==
    {<<"none", "pending">>, <<"none", "running">>, <<"pending", "running">>,
     <<"running", "completed">>, <<"running", "failed">>}

\* no stage method and no invocation occurs twice in a run
InvokedOnce ==
    \A i \in DOMAIN trace : \A j \in DOMAIN trace :
        (trace[i].stage = trace[j].stage /\ trace[i].call = trace[j].call) => i = j

\* the invocations of the run that failed
FailedInvocations == {i \in DOMAIN trace : trace[i].out \in FailureOutcomes}

\* invocations whose failure the stage records
Recorded ==
    {i \in DOMAIN trace : IsDeterministicFailure(trace[i]) \/ IsUnavailability(trace[i])}

\* invocations whose exception reaches the except clause of run()
Propagated ==
    {i \in DOMAIN trace :
        \/ /\ options.fail_fast
           /\ trace[i].stage \in DeterministicStages \ {"repomix"}
           /\ trace[i].out \in {"raise", "execution_failed"}
        \/ IsUnavailability(trace[i])
        \/ trace[i].stage = "holistic" /\ trace[i].out = "raise"}

\* some check of the preflight result is required and not available
RequiredCheckFailed ==
    \E ch \in preflight.checks : ch.required /\ ~ch.available

(***************************************************************************)
(* C1  A result returned by run() has status failed exactly when one of    *)
(* its recorded errors is not recoverable, and status completed otherwise. *)
(***************************************************************************)
Thm_C1 ==
    ResultReturned =>
        /\ result.status = "failed" <=> HasNonRecoverable(result)
        /\ result.status # "failed" => result.status = "completed"

\* a run that completed although errors were recorded
Wit_C1 ==
    /\ pc = "returned"
    /\ result.status = "completed"
    /\ Len(result.errors) >= 2

(***************************************************************************)
(* C2  Deterministic-Before-Generative: when a call to the generative      *)
(* service is made, every deterministic stage that is not skipped has been *)
(* entered before it, and no invocation of a deterministic stage follows.  *)
(***************************************************************************)
Thm_C2 ==
    \A i \in DOMAIN trace :
        IsGenerativeCall(trace[i]) =>
            /\ \A s \in DeterministicStages : Requested(s) => BegunBefore(s, i)
            /\ \A j \in DOMAIN trace :
                  trace[j].stage \in DeterministicStages => j < i

\* all six deterministic stages ran and a completion was requested
Wit_C2 ==
    /\ \A s \in DeterministicStages : BegunBefore(s, Len(trace))
    /\ \E i \in DOMAIN trace : trace[i] = Event("llm", "overview", "ok")

(***************************************************************************)
(* C3  Whatever the skip options, the stages that execute are entered in   *)
(* the fixed order dependency, compression, structure parse,               *)
(* flow-documentation, SBOM, infrastructure diagram, narration, holistic   *)
(* narration.                                                              *)
(***************************************************************************)
Thm_C3 ==
    \A i \in DOMAIN trace : \A j \in DOMAIN trace :
        (i < j /\ IsBegin(trace[i]) /\ IsBegin(trace[j]))
            => Position(trace[i].stage) < Position(trace[j].stage)

\* a run in which all eight stages executed
Wit_C3 ==
    /\ pc = "returned"
    /\ \A k \in DOMAIN FixedOrder : \E i \in DOMAIN trace : trace[i] = Begin(FixedOrder[k])

Claim_C5 ==
    options.fail_fast =>
        \A i \in DOMAIN trace :
            trace[i].out \in ExceptionOutcomes =>
                \A j \in DOMAIN trace : j > i => ~IsBegin(trace[j])

(***************************************************************************)
(* C6  When the narration stage finds the generative capability           *)
(* unavailable (the client cannot be created, or the availability probe    *)
(* fails), a non-recoverable AnalysisError is recorded and the run ends    *)
(* failed; no error of the generative stages is ever recoverable.          *)
(***************************************************************************)
Thm_C6 ==
    /\ \A k \in DOMAIN result.errors :
          result.errors[k].component \in {"llm", "holistic_overview"}
              => ~result.errors[k].recoverable
    /\ \A i \in DOMAIN trace :
          IsUnavailability(trace[i]) =>
              /\ ~options.skip_llm
              /\ \E k \in ErrorsOf("llm") : ~result.errors[k].recoverable
              /\ ResultReturned => result.status = "failed"

\* the probe failed after every deterministic stage had succeeded
Wit_C6 ==
    /\ pc = "returned"
    /\ result.status = "failed"
    /\ \E i \in DOMAIN trace : trace[i] = Event("llm", "check_available", "unavailable")
    /\ \A i \in DOMAIN trace : trace[i].stage \in DeterministicStages => trace[i].out \in {"ok", "-"}

(***************************************************************************)
(* C7  The status of a result moves only along pending -> running ->       *)
(* completed or pending -> running -> failed (run() creates the result     *)
(* already running); a completed or failed status never changes again.     *)
(***************************************************************************)
Thm_C7 ==
    [][result.status' # result.status
          => <<result.status, result.status'>> \in StatusTransitions]_vars

\* the write command went on after a run that completed
Wit_C7 ==
    /\ pc = "cli_exit"
    /\ result.status = "completed"

(***************************************************************************)
(* C8  Once the status of the result is completed or failed, no field of   *)
(* the result, its error list included, is modified again.                 *)
(***************************************************************************)
Claim_C8 ==
    [][result.status \in {"completed", "failed"} => result' = result]_vars

(***************************************************************************)
(* C9 (as stated)  Each stage is invoked at most once, each failed         *)
(* invocation adds exactly one AnalysisError, and the run goes on to the   *)
(* next stage.                                                             *)
(***************************************************************************)
Claim_C9 ==
    /\ InvokedOnce
    /\ ResultReturned =>
          /\ Len(result.errors) = Cardinality(FailedInvocations)
          /\ ErrorsOf("pipeline") = {}

(***************************************************************************)
(* C9 (amended)  Nothing is retried: each stage and each invocation        *)
(* happens at most once.  A failed invocation of a deterministic stage, or *)
(* of the narration stage's client creation or probe, adds exactly one     *)
(* AnalysisError; a failed narration section or holistic completion adds   *)
(* none.  A failure that reaches run()'s handler (a re-raise under         *)
(* fail_fast, narration unavailability, an unexpected exception of         *)
(* holistic narration) is the last invocation of the run and adds one      *)
(* further non-recoverable "pipeline" error; after any other failure the   *)
(* run goes on.                                                            *)
(***************************************************************************)
Thm_C9 ==
    /\ InvokedOnce
    /\ Propagated \subseteq {Len(trace)}
    /\ ResultReturned =>
          /\ Len(result.errors) = Cardinality(Recorded) + Cardinality(Propagated)
          /\ Cardinality(ErrorsOf("pipeline")) = Cardinality(Propagated)
          /\ \A k \in ErrorsOf("pipeline") :
                k = Len(result.errors) /\ ~result.errors[k].recoverable
          /\ Propagated = {} =>
                \A t \in DeterministicStages \cup GenerativeStages :
                    Requested(t) => BegunBefore(t, Len(trace) + 1)

\* the probe failed: two errors for one failed invocation
Wit_C9 ==
    /\ pc = "returned"
    /\ Cardinality(FailedInvocations) = 1
    /\ Len(result.errors) = 2
    /\ \E i \in DOMAIN trace : trace[i] = Event("llm", "check_available", "unavailable")

(***************************************************************************)
(* C10  When a required preflight check has failed, no pipeline is         *)
(* constructed and no stage runs.                                          *)
(***************************************************************************)
Thm_C10 ==
    (preflight.ran /\ RequiredCheckFailed) =>
        /\ pipelines = 0
        /\ trace = <<>>
        /\ result.status = "none"
        /\ pc = "cli_exit"
        /\ cli.exit_code = 1

\* the first probe failed, all later ones succeeded
Wit_C10 ==
    /\ pc = "cli_exit"
    /\ preflight.ran
    /\ ToolCheck("git", FALSE, TRUE) \in preflight.checks
    /\ \A ch \in preflight.checks : ch.name # "git" => ch.available
    /\ Cardinality(preflight.checks) = Cardinality(CheckNames)

(***************************************************************************)
(* Vocabulary of the dependency-resolution properties                      *)
(***************************************************************************)
\* the ecosystem whose dependencies a manifest file declares
ManifestEcosystem(file) ==
    CASE IsPackageJson(file)                              -> "npm"
      [] file \in {"requirements.txt", "pyproject.toml"}  -> "pypi"
      [] file = "go.mod"                                  -> "go"
      [] file \in {"pom.xml", "build.gradle"}             -> "maven"

\* the manifests of the repository itself: installed packages under
\* node_modules carry manifests of their own, which are not the repository's
RepositoryManifest(file) == ~InNodeModules(file)

\* two characters that the case-insensitive ecosystem does not distinguish
SameChar(x, y) ==
    \/ LowerChar(x) = LowerChar(y)
    \/ {x, y} \subseteq {"-", "_", "."}

\* the normalization rule of an ecosystem: exact match, except for pypi, where
\* case is ignored and "-", "_" and "." are equivalent
Matches(ecosystem, a, b) ==
    IF ecosystem = "pypi"
    THEN Len(a) = Len(b) /\ \A i \in DOMAIN a : SameChar(a[i], b[i])
    ELSE a = b

\* the entries that the repository's manifests declare for an ecosystem
Declared(ecosystem) ==
    {en \in directory :
        RepositoryManifest(en.file) /\ ManifestEcosystem(en.file) = ecosystem}

\* the packages of the scan
Packages == {sbom.packages[i] : i \in DOMAIN sbom.packages}

(***************************************************************************)
(* C11  Every canonical package of the scan is tagged is_direct exactly    *)
(* when its name matches, under the normalization rule of its ecosystem,   *)
(* an entry that a manifest of the repository declares for that ecosystem. *)
(***************************************************************************)
Claim_C11 ==
    \A p \in Packages :
        p.is_direct <=> \E en \in Declared(p.ecosystem) :
                            Matches(p.ecosystem, p.name, en.name)

(***************************************************************************)
(* C20  An npm package is tagged direct only if exactly its name is a key  *)
(* of a package.json of the repository: a declared "@scope/a" makes no     *)
(* other package of the scope direct.                                      *)
(***************************************************************************)
Thm_C20 ==
    \A p \in Packages :
        (p.ecosystem = "npm" /\ p.is_direct)
            => \E en \in Declared("npm") : en.name = p.name

\* a scoped package left transitive while another package of its scope is
\* declared
Wit_C20 ==
    /\ sbom.ran
    /\ \E p \in Packages :
        /\ p.ecosystem = "npm" /\ ~p.is_direct
        /\ Scope(p.name) # <<>>
        /\ \E en \in Declared("npm") : Scope(en.name) = Scope(p.name)

(***************************************************************************)
(* Vocabulary of the flow-documentation properties                         *)
(***************************************************************************)
\* the import graphs that build_import_graph has returned so far
BuiltGraphs ==
    (IF built_graph.built THEN {built_graph} ELSE {})
        \cup {runs[i].import_graph : i \in DOMAIN runs}

\* the names of the parsed modules of the repository
ParsedNames == {_normalize_module_name(m.file) : m \in ast.modules} \ {<<>>}

\* a is a proper prefix of b
ProperPrefix(a, b) == Len(a) < Len(b) /\ SubSeq(b, 1, Len(a)) = a

\* a known internal module: the name of a parsed module, a parent package of
\* one, or a package directory of the repository under its path or dotted name
KnownInternal(name) ==
    \/ name \in ParsedNames
    \/ \E n \in ParsedNames : ProperPrefix(name, n)
    \/ name \in ast.detected \cup ast.packages
    \/ \E d \in ast.packages : name = Dotted(d)

\* an import of an external package (a bare JavaScript specifier, or a name
\* that is no known internal module) or a parent-relative Python import
Dropped(stmt) ==
    \/ stmt.language = "javascript" /\ stmt.dots = 0
    \/ stmt.language = "python" /\ stmt.dots > 0
    \/ ~KnownInternal(stmt.module)

\* C12: for every ImportGraph that the builder produces, both endpoints of
\* every edge are members of the node list, and no ordered pair occurs twice
\* in the edge list.
Thm_C12 ==
    \A g \in BuiltGraphs :
        \A i \in DOMAIN g.edges :
            /\ g.edges[i][1] \in Range(g.nodes)
            /\ g.edges[i][2] \in Range(g.nodes)
            /\ \A j \in DOMAIN g.edges : g.edges[j] = g.edges[i] => j = i

\* a module imports the same package twice, the package is no parsed module,
\* and the graph has the one edge to it
Wit_C12 ==
    /\ built_graph.built
    /\ \E m \in ast.modules :
           /\ Len(m.imports) = 2
           /\ m.imports[1] = m.imports[2]
           /\ m.imports[1].module \notin ParsedNames
           /\ <<_normalize_module_name(m.file), m.imports[1].module>>
                  \in Range(built_graph.edges)

TwoModuleScenario ==
    ast.modules =
        {[file |-> File(<<"app">>, "main", ".py", "python"),
          imports |-> <<Import("python", "from", 0, <<"app", "utils">>)>>],
         [file |-> File(<<"app">>, "utils", ".py", "python"),
          imports |-> <<>>]}

\* C14: given exactly the two modules app/main, which imports app/utils, and
\* app/utils, which imports nothing, the builder yields the nodes app/main
\* and app/utils and the one edge (app/main, app/utils).
Claim_C14 ==
    TwoModuleScenario =>
        \A g \in BuiltGraphs :
            /\ Range(g.nodes) = {<<"app", "main">>, <<"app", "utils">>}
            /\ Range(g.edges) = {<<(<<"app", "main">>), (<<"app", "utils">>)>>}

\* C16: two runs over the unchanged repository yield the same node list, the
\* same set of edges and the same diagram text, line for line.
Claim_C16 ==
    \A i \in DOMAIN runs : \A j \in DOMAIN runs :
        /\ runs[i].import_graph.nodes = runs[j].import_graph.nodes
        /\ Range(runs[i].import_graph.edges) = Range(runs[j].import_graph.edges)
        /\ runs[i].module_flow_diagram.mermaid = runs[j].module_flow_diagram.mermaid

\* the identifiers of the nodes that a diagram text defines
ShownNodes(diagram) ==
    {diagram.mermaid[i].a.parts :
        i \in {k \in DOMAIN diagram.mermaid : diagram.mermaid[k].kind = "node"}}

\* the identifiers under which a set of nodes is shown
Shown(nodes) == {Underscored(x) : x \in nodes}

Registered(capability, name) == name \in DOMAIN tool_registry.adapters[capability]

\* the adapter that the class registered under a name yields
RegisteredAdapter(capability, name) ==
    Adapter(capability, tool_registry.adapters[capability][name], name)

\* the name a retrieval looks up: the requested name, or the default of the
\* capability when no name or an empty name is requested
Effective(capability, name) ==
    IF name = "none" \/ name = "" THEN tool_registry.default[capability] ELSE name

Thm_C18 ==
    [][/\ last_call'.op = "register" =>
            /\ last_call'.constructed = {}
            /\ last_call'.probed = {}
            /\ \A c \in Capabilities :
                   /\ DOMAIN tool_registry'.adapters[c] =
                          DOMAIN tool_registry.adapters[c]
                              \cup (IF c = last_call'.capability
                                    THEN {last_call'.name} ELSE {})
                   /\ \A n \in DOMAIN tool_registry.adapters[c] :
                          (c # last_call'.capability \/ n # last_call'.name) =>
                              tool_registry'.adapters[c][n] =
                                  tool_registry.adapters[c][n]
                   /\ tool_registry'.default[c] \in
                          {tool_registry.default[c]}
                              \cup (IF c = last_call'.capability
                                    THEN {last_call'.name} ELSE {})
       /\ last_call'.constructed # {} =>
              last_call'.op \in {"get", "check_tool_availability"}
      ]_vars

\* a class whose constructor raises has been registered as the default, and
\* the registration returned
Wit_C18 ==
    /\ last_call.op = "register"
    /\ last_call.result = "returned"
    /\ tool_registry.default[last_call.capability] = last_call.name
    /\ tool_registry.adapters[last_call.capability][last_call.name].init = "raise"

\* C19: the availability probe never raises; it reports every registered
\* adapter, as unavailable if its constructor or its check_available raised,
\* and it calls check_available of every adapter that could be constructed.
Thm_C19 ==
    last_call.op = "check_tool_availability" =>
        /\ last_call.result = "returned"
        /\ \A c \in Capabilities : \A n \in AdapterNames :
               LET reported == {r \in last_call.value :
                                   r.capability = c /\ r.name = n}
               IN  IF Registered(c, n)
                   THEN /\ reported =
                               {[capability |-> c, name |-> n,
                                 available |->
                                     /\ tool_registry.adapters[c][n].init = "ok"
                                     /\ tool_registry.adapters[c][n].check = "true"]}
                        /\ tool_registry.adapters[c][n].init = "ok" =>
                               RegisteredAdapter(c, n) \in last_call.probed
                   ELSE reported = {}

\* one capability holds a class whose constructor raises and a class whose
\* probe raises, the other an adapter that is available: the first two are
\* reported unavailable, the third available
Wit_C19 ==
    /\ last_call.op = "check_tool_availability"
    /\ \E c \in Capabilities, d \in Capabilities, n \in ToolNames, m \in ToolNames :
           /\ n # m
           /\ Registered(c, n) /\ Registered(c, m) /\ Registered(d, m)
           /\ tool_registry.adapters[c][n].init = "raise"
           /\ tool_registry.adapters[c][m].check = "raise"
           /\ [capability |-> c, name |-> n, available |-> FALSE] \in last_call.value
           /\ [capability |-> c, name |-> m, available |-> FALSE] \in last_call.value
           /\ [capability |-> d, name |-> m, available |-> TRUE] \in last_call.value

\* the edges that a diagram text draws, as pairs of identifiers
DrawnEdges(diagram) ==
    {<<diagram.mermaid[i].a.parts, diagram.mermaid[i].b.parts>> :
        i \in {k \in DOMAIN diagram.mermaid : diagram.mermaid[k].kind = "edge"}}

\* the top-level segments of test packages
TestLike == {"tests", "test", "spec", "specs", "__tests__"}

\* C22 as stated: for every import graph, empty or not, the first line of
\* the rendered diagram text is "flowchart TD".
Claim_C22 ==
    \A i \in DOMAIN runs :
        runs[i].module_flow_diagram.mermaid[1].kind = "flowchart TD"

Claim_C29 ==
    \A i \in DOMAIN runs :
        Cardinality(ShownNodes(runs[i].module_flow_diagram)) =
            runs[i].module_flow_diagram.node_count

\* C21 as stated: after the merge, every parsed dependency whose license
\* was known has kept it, and every parsed dependency whose license was
\* missing has the license of an SBOM package of its name and ecosystem, if
\* one with a license exists.
Claim_C21 ==
    technology_stack.merged =>
        \A i \in DOMAIN merge_input.dependencies :
            LET before == merge_input.dependencies[i]
                after == technology_stack.dependencies[i]
                licenses == {p.license :
                                p \in {q \in Range(merge_input.packages) :
                                          /\ q.name = before.name
                                          /\ q.ecosystem = before.ecosystem
                                          /\ q.license # "none"}}
            IN  /\ before.license # "none" => after.license = before.license
                /\ (before.license = "none" /\ licenses # {}) =>
                       after.license \in licenses

(***************************************************************************)
(* C30  Once repository validation has succeeded, run() never raises:      *)
(* whatever exception occurs in a stage, with or without fail_fast, the    *)
(* exception ends in the handler of run(), and run() returns a result      *)
(* whose status is completed or failed, never pending or running.          *)
(***************************************************************************)
Thm_C30 ==
    /\ pc = "raised" => result.status = "none"
    /\ exc # "none" => pc \in {"except", "except_add"}
    /\ ResultReturned => result.status \in {"completed", "failed"}

\* under fail_fast a stage re-raised, and run() returned a failed result
Wit_C30 ==
    /\ pc = "returned"
    /\ options.fail_fast
    /\ result.status = "failed"
    /\ ErrorsOf("pipeline") # {}
    /\ \E i \in DOMAIN trace : trace[i] = Event("ast", "parse_directory", "raise")

(***************************************************************************)
(* C25  The flow-documentation stage runs only after the structure parse   *)
(* stage has run in the same run, and never runs when the structure parse  *)
(* is skipped.                                                             *)
(***************************************************************************)
Thm_C25 ==
    \A i \in DOMAIN trace :
        trace[i].stage = "flow" =>
            /\ ~options.skip_ast
            /\ BegunBefore("ast", i)
            /\ \A j \in DOMAIN trace : trace[j].stage = "ast" => j < i

\* the structure parse raised, was recorded, and flow-documentation ran
\* after it without a source analysis
Wit_C25 ==
    /\ pc = "returned"
    /\ ~result.source_analysis
    /\ \E i \in DOMAIN trace :
        /\ trace[i] = Event("ast", "parse_directory", "raise")
        /\ BegunAfter("flow", i)

(***************************************************************************)
(* C26  Holistic narration calls the generative service (creates the       *)
(* client, requests the overview) only if the compression stage produced   *)
(* the compressed codebase earlier in the same run, the generative         *)
(* capability is enabled in the configuration, and narration is not        *)
(* skipped.                                                                *)
(***************************************************************************)
Thm_C26 ==
    \A i \in DOMAIN trace :
        (trace[i].stage = "holistic" /\ ~IsBegin(trace[i])) =>
            /\ \E j \in 1..(i - 1) : trace[j] = Event("repomix", "compress", "ok")
            /\ result.compressed_codebase
            /\ config.present /\ config.llm_enabled
            /\ ~options.skip_llm

\* the overview was requested in a run whose narration stage had run
Wit_C26 ==
    /\ pc = "returned"
    /\ result.holistic_overview = "generated"
    /\ \E i \in DOMAIN trace :
          trace[i] = Event("holistic", "generate_holistic_overview", "ok")

\* narration is skipped, or the configuration does not enable the
\* generative capability
NarrationOff == options.skip_llm \/ ~config.present \/ ~config.llm_enabled

\* every narration section holds its placeholder
AllPlaceholders(res) ==
    /\ DOMAIN res.llm_summaries = SectionNames
    /\ \A s \in SectionNames : res.llm_summaries[s] = "placeholder"

(***************************************************************************)
(* C23 (as stated)  When narration is skipped via skip_llm, or the         *)
(* generative capability is disabled in the configuration, each of the     *)
(* four narration sections holds its placeholder when the run ends.        *)
(***************************************************************************)
Claim_C23 ==
    (/\ ResultReturned
     /\ options.skip_llm \/ (config.present /\ ~config.llm_enabled))
        => AllPlaceholders(result)

(***************************************************************************)
(* C23 (amended)  When narration is skipped via skip_llm, or the           *)
(* generative capability is disabled or not configured, a run that ends    *)
(* without an exception having reached the handler of run() holds the      *)
(* placeholder in each of the four sections; a run that a stage ended      *)
(* under fail_fast holds no summary at all.  In neither case does a        *)
(* section hold generated text.                                            *)
(***************************************************************************)
Thm_C23 ==
    (ResultReturned /\ NarrationOff) =>
        IF ErrorsOf("pipeline") = {}
        THEN AllPlaceholders(result)
        ELSE /\ DOMAIN result.llm_summaries = {}
             /\ options.fail_fast

\* narration was entered with the capability disabled, after a stage had
\* failed, and applied the placeholders
Wit_C23 ==
    /\ pc = "returned"
    /\ ~options.skip_llm /\ config.present /\ ~config.llm_enabled
    /\ \E i \in DOMAIN trace : trace[i] = Begin("llm")
    /\ result.errors # <<>>
    /\ AllPlaceholders(result)

(***************************************************************************)
(* C28  The registry is populated once: after the first population,        *)
(* constructing a further pipeline or running one (which retrieves         *)
(* adapters) changes neither the registered adapters nor the defaults of   *)
(* the capabilities; of the operations other than a registration, only     *)
(* the reset changes them.                                                 *)
(***************************************************************************)
Claim_C28 ==
    [][(populated /\ last_call'.op \notin {"register", "reset_registry"})
          => tool_registry' = tool_registry]_vars

\* some field that the stage writes is set in the result (result.modules
\* counts when detect_modules returned: after a failed detection the list
\* that is stored is empty)
OwnFieldSet(stage) ==
    CASE stage = "dependency" -> result.technology_stack.parsed
      [] stage = "repomix" ->
            result.compressed_codebase \/ "repomix" \in result.tool_versions
      [] stage = "ast" ->
            result.source_analysis \/ result.technology_stack.ast_languages
      [] stage = "flow" ->
            \/ result.entry_points
            \/ result.external_integrations
            \/ result.module_flow_diagram
            \/ /\ result.modules
               /\ \E i \in DOMAIN trace : trace[i] = Event("flow", "detect_modules", "ok")
      [] stage = "sbom" ->
            result.sbom \/ result.technology_stack.sbom_merged
                \/ "sbom" \in result.tool_versions
      [] stage = "architecture" ->
            result.architecture \/ "diagrams" \in result.tool_versions

(***************************************************************************)
(* C24  The output of a stage is merged into the result at one point, so   *)
(* that in a returned result a stage that failed part-way (it recorded an  *)
(* error) has left none of its own fields set.                             *)
(***************************************************************************)
Claim_C24 ==
    ResultReturned =>
        \A s \in DeterministicStages :
            ErrorsOf(Component(s)) # {} => ~OwnFieldSet(s)

====
